---- MODULE Spec2Model ----
(***************************************************************************)
(* Telemetry ingestion pipeline of the ground station:                     *)
(*   - XBeeTelemetryWorker (serial_preprocessor.py): thread lifecycle,     *)
(*     frame reassembly, field parsing, signals;                           *)
(*   - LogTab / SmartThresholdManager / check_telemetry_thresholds         *)
(*     (tabs/logtab.py): static ranges and rolling anomaly windows;        *)
(*   - TelemetryPanel.update_telemetry (telemetry1.py) and the REDUNDANT   *)
(*     column repair (models/train_rocket_weather_model.py);               *)
(*   - the dispatch of one record to its subscribers (dashboard1.py).      *)
(***************************************************************************)
EXTENDS Integers, Sequences, FiniteSets, TLC

\* ------------------------------------------------------------------------
\* Bounds of the model
\* ------------------------------------------------------------------------
MaxThreads == 2      \* read-loop threads of one worker that can be alive at once
MaxReads == 3        \* lines the device delivers

\* A thread slot holds the state of one read-loop thread (one session);
\* start() reuses the slot of a thread that has ended.
Threads == 1..MaxThreads

\* samples of one window that differ from the base sample
MaxDev == 1

\* lines of a frame given to _parse_frame alone
MaxFrameLen == 2

\* rows of the log file below the header
MaxLogRows == 4
MaxWorkers == 2
MaxRecords == 3
MaxPending == 2

\* ------------------------------------------------------------------------
\* Values of a telemetry dictionary: a float, a string, or None
\* ------------------------------------------------------------------------
\* (t = "num": the float n; t = "nan": the float NaN; t = "str": the string
\* s, where s = "numeric" stands for the decimal text of n and s = "csv" for
\* the comma-separated text of the numbers in v; t = "none": None)
Num(n) == [t |-> "num", n |-> n, s |-> "", v |-> <<>>]
NaNV == [t |-> "nan", n |-> 0, s |-> "", v |-> <<>>]
Str(s) == [t |-> "str", n |-> 0, s |-> s, v |-> <<>>]
NumStr(n) == [t |-> "str", n |-> n, s |-> "numeric", v |-> <<>>]
CsvStr(v) == [t |-> "str", n |-> 0, s |-> "csv", v |-> v]
NoneV == [t |-> "none", n |-> 0, s |-> "", v |-> <<>>]
EmptyRow == [x \in {} |-> NoneV]

\* dict.get(key): the value, or None when the key is absent
Get(row, key) == IF key \in DOMAIN row THEN row[key] ELSE NoneV

\* row[key] = value
Put(row, key, value) ==
    [x \in DOMAIN row \cup {key} |-> IF x = key THEN value ELSE row[x]]

\* ------------------------------------------------------------------------
\* Lines on the wire.  A decoded, stripped line is the sequence of its
\* words; a word is its text up to a numeric literal (k) and that literal
\* (num, empty when the word carries none).
\* ------------------------------------------------------------------------
W(k) == [k |-> k, num |-> <<>>]
F(k, v) == [k |-> k, num |-> <<v>>]

SENTINEL == "Data transmitted via XBee"

L_BME == <<W("BME:"), F("T=", 950), F("H=", 45), F("P=", 1000)>>
L_SENT == <<W(SENTINEL)>>
L_SEP == <<W("---")>>
L_BLANK == <<>>
\* a line of no known prefix, and a BME line that lacks its P= token
L_UNKNOWN == <<W("XYZ:"), F("T=", 99)>>
L_PARTIAL == <<W("BME:"), F("T=", 35), F("H=", 60)>>

\* the lines the device delivers to the read loop
Lines == {L_BME, L_SENT, L_SEP, L_BLANK, L_UNKNOWN, L_PARTIAL}

\* "Data transmitted via XBee" in line
HasSentinel(line) == \E i \in 1..Len(line) : line[i].k = SENTINEL

\* line.startswith(prefix)
StartsWith(line, prefix) == Len(line) > 0 /\ line[1].k = prefix

\* re.search(key + number, line): <<v>> for the first match, <<>> for none
Search(line, key) ==
    LET idx == {i \in 1..Len(line) : line[i].k = key /\ line[i].num # <<>>}
    IN IF idx = {} THEN <<>>
       ELSE LET i == CHOOSE m \in idx : \A o \in idx : m <= o
            IN <<line[i].num[1]>>

\* re.findall(number, line): every numeric literal of the line, in order
RECURSIVE FindAll(_)
FindAll(line) ==
    IF line = <<>> THEN <<>>
    ELSE (IF Head(line).num # <<>> THEN <<Head(line).num[1]>> ELSE <<>>)
         \o FindAll(Tail(line))

\* three fields of which each is set as soon as its own token matched
Put3_each(row, k1, a, k2, b, k3, c) ==
    LET r1 == IF a # <<>> THEN Put(row, k1, Num(a[1])) ELSE row
        r2 == IF b # <<>> THEN Put(r1, k2, Num(b[1])) ELSE r1
    IN IF c # <<>> THEN Put(r2, k3, Num(c[1])) ELSE r2

\* three grouped fields, set only when all three tokens matched
Put3(row, k1, a, k2, b, k3, c) ==
    IF a # <<>> /\ b # <<>> /\ c # <<>>
    THEN Put(Put(Put(row, k1, Num(a[1])), k2, Num(b[1])), k3, Num(c[1]))
    ELSE row

\* a loop body that knows the BME family only and keeps its first values
ParseLine_first_wins(row, line) ==
    IF StartsWith(line, "BME:") /\ "bme_temp" \notin DOMAIN row
    THEN Put3(row, "bme_temp", Search(line, "T="), "bme_h", Search(line, "H="),
              "bme_p", Search(line, "P="))
    ELSE row

\* the body of the for loop of _parse_frame for one line
ParseLine(row, line) ==
    IF Len(line) = 0 THEN row
    ELSE IF StartsWith(line, "Gyro:") THEN
        LET m == FindAll(line)
        IN IF Len(m) >= 3
           THEN Put(Put(Put(row, "gyro_x", Num(m[1])), "gyro_y", Num(m[2])),
                    "gyro_z", Num(m[3]))
           ELSE row
    ELSE IF StartsWith(line, "BME:") THEN
        Put3(row, "bme_temp", Search(line, "T="), "bme_h", Search(line, "H="),
             "bme_p", Search(line, "P="))
    ELSE IF StartsWith(line, "BMP:") THEN
        Put3(row, "bmp_temp", Search(line, "T="), "bmp_p", Search(line, "P="),
             "bmp_alt", Search(line, "Alt="))
    ELSE IF StartsWith(line, "GPS:") THEN
        LET r1 == Put3(row, "gps_lat", Search(line, "Lat="),
                       "gps_lon", Search(line, "Lon="),
                       "gps_alt", Search(line, "Alt="))
            vel == Search(line, "Vel=")
        IN IF vel # <<>> THEN Put(r1, "gps_vel", Num(vel[1])) ELSE r1
    ELSE IF StartsWith(line, "Gyro(R):") THEN
        LET m == FindAll(line)
        IN IF Len(m) >= 3
           THEN Put(Put(Put(row, "gyro_x_R", Num(m[1])), "gyro_y_R", Num(m[2])),
                    "gyro_z_R", Num(m[3]))
           ELSE row
    ELSE IF StartsWith(line, "BME(R):") THEN
        Put3(row, "bme_temp_R", Search(line, "T="), "bme_h_R", Search(line, "H="),
             "bme_p_R", Search(line, "P="))
    ELSE IF StartsWith(line, "BMP(R):") THEN
        Put3(row, "bmp_temp_R", Search(line, "T="), "bmp_p_R", Search(line, "P="),
             "bmp_alt_R", Search(line, "Alt="))
    ELSE IF StartsWith(line, "GPS(R):") THEN
        Put3(row, "gps_lat_R", Search(line, "Lat="), "gps_lon_R", Search(line, "Lon="),
             "gps_alt_R", Search(line, "Alt="))
    ELSE row

\* _parse_frame(raw_lines)
RECURSIVE ParseFrom(_, _)
ParseFrom(row, raw_lines) ==
    IF raw_lines = <<>> THEN row
    ELSE ParseFrom(ParseLine(row, Head(raw_lines)), Tail(raw_lines))

parse_frame(raw_lines) == ParseFrom(EmptyRow, raw_lines)

\* ------------------------------------------------------------------------
\* tabs/logtab.py: static thresholds
\* ------------------------------------------------------------------------
\* SENSOR_THRESHOLDS, every bound in tenths of the unit
SENSOR_THRESHOLDS ==
    [TEMP |-> [min |-> -100, max |-> 850, critical_max |-> 1000],
     HUM  |-> [min |-> 0, max |-> 1000, critical_max |-> 1000],
     PRES |-> [min |-> 3000, max |-> 11000, critical_min |-> 2000,
               critical_max |-> 12000],
     ALT  |-> [min |-> -5000, max |-> 500000, critical_max |-> 1000000],
     VOLT |-> [min |-> 30, max |-> 420, critical_min |-> 25,
               critical_max |-> 500],
     CURR |-> [min |-> -10000, max |-> 100000, critical_max |-> 150000],
     ACC  |-> [max |-> 500, critical_max |-> 1000]]

\* truth value of a Python object
Truthy(x) ==
    CASE x.t = "none" -> FALSE
      [] x.t = "num" -> x.n # 0
      [] x.t = "nan" -> TRUE
      [] x.t = "str" -> x.s # ""

\* a or b
Or(a, b) == IF Truthy(a) THEN a ELSE b

\* safe_float(value, default=0.0): <<>> for None, <<n>> for the float n
safe_float(value) ==
    CASE value.t = "none" -> <<>>
      [] value.t = "nan" -> <<>>
      [] value.t = "num" -> <<value.n>>
      [] value.t = "str" ->
           IF value.s \in {"", "nan", "n/a"} THEN <<>>
           ELSE IF value.s = "numeric" THEN <<value.n>>
           ELSE <<0>>

Event(type, loc, text, val) ==
    [type |-> type, loc |-> loc, msg |-> [text |-> text, val |-> val]]

\* the value of a family: telemetry_dict.get(K) or telemetry_dict.get(k)
FamilyValue(d, K, k) ==
    IF K \in DOMAIN d \/ k \in DOMAIN d
    THEN safe_float(Or(Get(d, K), Get(d, k)))
    ELSE <<>>

CheckTEMP(d) ==
    LET x == FamilyValue(d, "TEMP", "temperature")
        t == SENSOR_THRESHOLDS.TEMP
    IN IF x = <<>> THEN <<>>
       ELSE IF 10 * x[1] > t.critical_max
            THEN <<Event("CRITICAL", "BME680", "Temperature critical", x[1])>>
       ELSE IF 10 * x[1] > t.max
            THEN <<Event("WARNING", "BME680", "Temperature high", x[1])>>
       ELSE IF 10 * x[1] < t.min
            THEN <<Event("WARNING", "BME680", "Temperature low", x[1])>>
       ELSE <<>>

CheckHUM(d) ==
    LET x == FamilyValue(d, "HUM", "humidity")
        t == SENSOR_THRESHOLDS.HUM
    IN IF x = <<>> THEN <<>>
       ELSE IF 10 * x[1] > t.max \/ 10 * x[1] < t.min
            THEN <<Event("ERROR", "BME680", "Humidity out of range", x[1])>>
       ELSE <<>>

CheckPRES(d) ==
    LET x == FamilyValue(d, "PRES", "pressure")
        t == SENSOR_THRESHOLDS.PRES
    IN IF x = <<>> THEN <<>>
       ELSE IF 10 * x[1] > t.critical_max \/ 10 * x[1] < t.critical_min
            THEN <<Event("CRITICAL", "BME680/DPS310", "Pressure critical", x[1])>>
       ELSE IF 10 * x[1] > t.max \/ 10 * x[1] < t.min
            THEN <<Event("WARNING", "BME680/DPS310", "Pressure unusual", x[1])>>
       ELSE <<>>

CheckVOLT(d) ==
    LET x == FamilyValue(d, "VOLT", "voltage")
        t == SENSOR_THRESHOLDS.VOLT
    IN IF x = <<>> THEN <<>>
       ELSE IF 10 * x[1] < t.critical_min
            THEN <<Event("CRITICAL", "INA219", "Battery critically low", x[1])>>
       ELSE IF 10 * x[1] > t.critical_max
            THEN <<Event("CRITICAL", "INA219", "Voltage dangerously high", x[1])>>
       ELSE IF 10 * x[1] < t.min
            THEN <<Event("WARNING", "INA219", "Battery low", x[1])>>
       ELSE <<>>

CheckCURR(d) ==
    LET x == FamilyValue(d, "CURR", "current")
        t == SENSOR_THRESHOLDS.CURR
    IN IF x = <<>> THEN <<>>
       ELSE IF 10 * x[1] > t.critical_max
            THEN <<Event("CRITICAL", "INA219", "Current overload", x[1])>>
       ELSE IF 10 * x[1] > t.max
            THEN <<Event("WARNING", "INA219", "High current draw", x[1])>>
       ELSE <<>>

CheckALT(d) ==
    LET x == FamilyValue(d, "ALT", "altitude")
        t == SENSOR_THRESHOLDS.ALT
    IN IF x = <<>> THEN <<>>
       ELSE IF 10 * x[1] > t.critical_max
            THEN <<Event("ERROR", "Altitude", "Altitude extremely high", x[1])>>
       ELSE IF 10 * x[1] < t.min
            THEN <<Event("WARNING", "Altitude", "Negative altitude", x[1])>>
       ELSE <<>>

RECURSIVE SumSq(_)
SumSq(v) == IF v = <<>> THEN 0 ELSE Head(v) * Head(v) + SumSq(Tail(v))

\* the magnitude is compared through its square; the event carries the square
CheckACC(d) ==
    IF "ACC" \in DOMAIN d \/ "acceleration" \in DOMAIN d
    THEN LET a == Or(Get(d, "ACC"),
                     IF "acceleration" \in DOMAIN d THEN d["acceleration"]
                     ELSE CsvStr(<<0, 0, 0>>))
             t == SENSOR_THRESHOLDS.ACC
         IN IF a.t = "str" /\ a.s = "csv"
            THEN LET m2 == SumSq(a.v)
                 IN IF 100 * m2 > t.critical_max * t.critical_max
                    THEN <<Event("CRITICAL", "BNO055", "Extreme acceleration", m2)>>
                    ELSE IF 100 * m2 > t.max * t.max
                    THEN <<Event("WARNING", "BNO055", "High acceleration", m2)>>
                    ELSE <<>>
            ELSE <<>>
    ELSE <<>>

CheckGPS(d) ==
    IF "GPS_RAW" \in DOMAIN d \/ "gps" \in DOMAIN d
    THEN LET g == Or(Get(d, "GPS_RAW"),
                     IF "gps" \in DOMAIN d THEN d["gps"] ELSE Str(""))
         IN IF g.t = "str" /\ g.s = ""
            THEN <<Event("INFO", "GPS", "GPS searching for fix", 0)>>
            ELSE <<>>
    ELSE <<>>

\* the scan for the literal "nan", one event per such key
RECURSIVE NanScan(_, _)
NanScan(d, keys) ==
    IF keys = {} THEN <<>>
    ELSE LET k == CHOOSE x \in keys : TRUE
         IN (IF d[k].t = "str" /\ d[k].s = "nan"
             THEN <<Event("WARNING", k, "Invalid reading", 0)>> ELSE <<>>)
            \o NanScan(d, keys \ {k})

check_telemetry_thresholds(d) ==
    CheckTEMP(d) \o CheckHUM(d) \o CheckPRES(d) \o CheckVOLT(d) \o CheckCURR(d)
    \o CheckALT(d) \o CheckACC(d) \o CheckGPS(d) \o NanScan(d, DOMAIN d)

\* ------------------------------------------------------------------------
\* tabs/logtab.py: SmartThresholdManager and LogTab.process_telemetry
\* ------------------------------------------------------------------------
TrackedKeys == <<"TEMP", "VOLT", "CURR", "PRES">>
window_size == 20
MinSamples == 5
\* sigma_factor = 2.5 = SigmaNum / SigmaDen
SigmaNum == 5
SigmaDen == 2

InitBuffers == [k \in {TrackedKeys[i] : i \in 1..Len(TrackedKeys)} |-> <<>>]

RECURSIVE Sum(_)
Sum(v) == IF v = <<>> THEN 0 ELSE Head(v) + Sum(Tail(v))

\* deque(maxlen=window_size).append(x)
DequeAppend(buf, x) ==
    IF Len(buf) >= window_size THEN Tail(buf) \o <<x>> ELSE buf \o <<x>>

NoMsg == [kind |-> "none", key |-> "", value |-> 0]
Anomaly(kind, key, value) == [kind |-> kind, key |-> key, value |-> value]

\* The comparison value > mean + sigma_factor*std of line 69, and its mirror
\* of line 70, in exact arithmetic: with n = len(buf), d = n*value - sum(buf)
\* and q = n*sum(x*x) - sum(buf)^2 = (n*std)^2, it reads
\* SigmaDen*d > SigmaNum*sqrt(q).
Outlier(buf, value) ==
    LET n == Len(buf)
        d == n * value - Sum(buf)
        q == n * SumSq(buf) - Sum(buf) * Sum(buf)
    IN IF q = 0 THEN "none"
       ELSE IF d > 0 /\ SigmaDen * SigmaDen * d * d > SigmaNum * SigmaNum * q
            THEN "above"
       ELSE IF d < 0 /\ SigmaDen * SigmaDen * d * d > SigmaNum * SigmaNum * q
            THEN "below"
       ELSE "none"

\* update_and_check that takes the statistics of the window before the
\* sample is appended
update_and_check_stats_first(bufs, key, value) ==
    IF key \notin DOMAIN bufs \/ value = <<>>
    THEN [buffers |-> bufs, msg |-> NoMsg]
    ELSE LET buf == DequeAppend(bufs[key], value[1])
             nb == [bufs EXCEPT ![key] = buf]
         IN IF Len(buf) < MinSamples THEN [buffers |-> nb, msg |-> NoMsg]
            ELSE LET o == Outlier(bufs[key], value[1])
                 IN [buffers |-> nb,
                     msg |-> IF o = "none" THEN NoMsg
                             ELSE Anomaly(o, key, value[1])]

\* update_and_check without the minimum-sample test and with a band of
\* one standard deviation
update_and_check_unguarded(bufs, key, value) ==
    IF key \notin DOMAIN bufs \/ value = <<>>
    THEN [buffers |-> bufs, msg |-> NoMsg]
    ELSE LET buf == DequeAppend(bufs[key], value[1])
             nb == [bufs EXCEPT ![key] = buf]
             n == Len(buf)
             d == n * value[1] - Sum(buf)
             q == n * SumSq(buf) - Sum(buf) * Sum(buf)
         IN [buffers |-> nb,
             msg |-> IF q # 0 /\ d * d > q
                     THEN Anomaly(IF d > 0 THEN "above" ELSE "below",
                                  key, value[1])
                     ELSE NoMsg]

\* SmartThresholdManager.update_and_check(key, value); value is what
\* safe_float returned.  The result is the new buffers and the message.
update_and_check(bufs, key, value) ==
    IF key \notin DOMAIN bufs \/ value = <<>>
    THEN [buffers |-> bufs, msg |-> NoMsg]
    ELSE LET buf == DequeAppend(bufs[key], value[1])
             nb == [bufs EXCEPT ![key] = buf]
         IN IF Len(buf) < MinSamples THEN [buffers |-> nb, msg |-> NoMsg]
            ELSE LET o == Outlier(buf, value[1])
                 IN [buffers |-> nb,
                     msg |-> IF o = "none" THEN NoMsg
                             ELSE Anomaly(o, key, value[1])]

Nominal == [text |-> "Nominal", val |-> 0]

\* the message update_and_check returns:
\* f"{key} anomaly: {value:.2f} above expected (~{mean:.2f} +- {std:.2f})"
AnomalyMessage(m) ==
    [text |-> CASE m.key = "TEMP" /\ m.kind = "above" -> "TEMP anomaly: above expected"
                [] m.key = "TEMP" -> "TEMP anomaly: below expected"
                [] m.key = "VOLT" /\ m.kind = "above" -> "VOLT anomaly: above expected"
                [] m.key = "VOLT" -> "VOLT anomaly: below expected"
                [] m.key = "CURR" /\ m.kind = "above" -> "CURR anomaly: above expected"
                [] m.key = "CURR" -> "CURR anomaly: below expected"
                [] m.kind = "above" -> "PRES anomaly: above expected"
                [] OTHER -> "PRES anomaly: below expected",
     val |-> m.value]

\* f"{key} anomaly"
AnomalyReason(key) ==
    [text |-> CASE key = "TEMP" -> "TEMP anomaly"
                [] key = "VOLT" -> "VOLT anomaly"
                [] key = "CURR" -> "CURR anomaly"
                [] OTHER -> "PRES anomaly",
     val |-> 0]

\* a first loop in which the latest event decides level and reason
RECURSIVE StaticSeverity_latest(_, _)
StaticSeverity_latest(events, acc) ==
    IF events = <<>> THEN acc
    ELSE LET e == Head(events)
         IN StaticSeverity_latest(Tail(events),
                IF e.type = "CRITICAL" THEN [sev |-> 2, reason |-> e.msg]
                ELSE IF e.type \in {"WARNING", "ERROR"}
                     THEN [sev |-> 1, reason |-> e.msg]
                ELSE acc)

\* the first loop of process_telemetry: severity and reason after the
\* static events
RECURSIVE StaticSeverity(_, _)
StaticSeverity(events, acc) ==
    IF events = <<>> THEN acc
    ELSE LET e == Head(events)
         IN StaticSeverity(Tail(events),
                IF e.type = "CRITICAL" THEN [sev |-> 2, reason |-> e.msg]
                ELSE IF acc.sev < 1 /\ e.type \in {"WARNING", "ERROR"}
                     THEN [sev |-> 1, reason |-> e.msg]
                ELSE acc)

\* the second loop of process_telemetry over the tracked keys
RECURSIVE RollingLoop(_, _, _)
RollingLoop(keys, d, acc) ==
    IF keys = <<>> THEN acc
    ELSE LET key == Head(keys)
             r == update_and_check(acc.buffers, key, safe_float(Get(d, key)))
         IN RollingLoop(Tail(keys), d,
                IF r.msg.kind = "none"
                THEN [acc EXCEPT !.buffers = r.buffers]
                ELSE [buffers |-> r.buffers,
                      msgs |-> Append(acc.msgs, r.msg),
                      sev |-> IF acc.sev < 1 THEN 1 ELSE acc.sev,
                      reason |-> IF acc.sev < 1 THEN AnomalyReason(key)
                                 ELSE acc.reason])

\* process_telemetry without the pause test of line 329
process_telemetry_nopause(bufs, is_paused, d) ==
    LET events == check_telemetry_thresholds(d)
        st == StaticSeverity(events, [sev |-> 0, reason |-> Nominal])
        r == RollingLoop(TrackedKeys, d,
                 [buffers |-> bufs, msgs |-> <<>>, sev |-> st.sev,
                  reason |-> st.reason])
    IN [buffers |-> r.buffers, events |-> events, msgs |-> r.msgs,
        emitted |-> TRUE, sev |-> r.sev, reason |-> r.reason]

\* LogTab.process_telemetry: the new buffers, the static events and rolling
\* messages logged, and the health_changed emission (absent when paused)
process_telemetry(bufs, is_paused, d) ==
    IF is_paused
    THEN [buffers |-> bufs, events |-> <<>>, msgs |-> <<>>, emitted |-> FALSE,
          sev |-> 0, reason |-> Nominal]
    ELSE LET events == check_telemetry_thresholds(d)
             st == StaticSeverity(events, [sev |-> 0, reason |-> Nominal])
             r == RollingLoop(TrackedKeys, d,
                      [buffers |-> bufs, msgs |-> <<>>, sev |-> st.sev,
                       reason |-> st.reason])
         IN [buffers |-> r.buffers, events |-> events, msgs |-> r.msgs,
             emitted |-> TRUE, sev |-> r.sev, reason |-> r.reason]

\* ------------------------------------------------------------------------
\* State
\* ------------------------------------------------------------------------
VARIABLES
    \* XBeeTelemetryWorker
    run_flag,       \* self._run_flag
    thread,         \* self._thread: the session it refers to, 0 for None
    ser,            \* self._ser: the handle it refers to, 0 for None
    is_open,        \* is_open of the handle each session opened
    tpc,            \* position of each session's read-loop thread
    buffer_lines,   \* buffer_lines of each session's _run_worker
    spc,            \* position of the caller inside stop()
    signals,        \* per session, the signals emitted so far, in order
    nread,          \* lines read from the device so far
    last_line,      \* the line the latest readline() returned
    parse_calls,    \* calls of _parse_frame so far
    early_stop,     \* per session: stop() began before any line was read
    start_noop,     \* start() returned at its is_alive guard
    open_attempts,  \* per session: calls of serial.Serial(...)
    close_calls,    \* per handle: calls of its close()
    session_lines,  \* per session: the lines read since its start or its
                    \* latest sentinel that were no separator lines
    stop_mark,      \* per session: the records it had emitted when a stop()
                    \* first returned during it, -1 when none has
    \* LogTab
    buffers,        \* smart_manager.buffers
    paused,         \* self.paused
    health,         \* the latest health_changed emission
    last_logs,      \* static events and rolling messages of the latest record
    prev_buffers,   \* smart_manager.buffers before the latest record
    last_rec,       \* the latest record given to process_telemetry
    \* dispatch of a record (dashboard1.py, csvtab.py)
    csv_mode,       \* CSVTab.mode
    invoked,        \* per subscriber: calls made with the latest record
    last_bad,       \* the subscribers that raise on the latest record
    last_path,      \* the signal that carried the latest record
    escaped,        \* an exception reached the emitter of the latest record
    \* redundancy resolution (telemetry1.py, train_rocket_weather_model.py)
    panel_row,      \* the row given to TelemetryPanel.update_telemetry
    panel_shown,    \* per column, the value the panel displays
    df_before,      \* a row of the CSV table before the repair loop
    df_after,       \* that row after the repair loop
    \* _parse_frame taken alone
    p_frame,        \* the raw_lines of the latest call
    p_row,          \* the row it returned
    \* check_telemetry_thresholds taken alone
    thr_rec,        \* the telemetry_dict of the latest call
    thr_events,     \* the list it returned
    \* the persisted log (tabs/logtab.py)
    log_file,       \* the rows of mission_logs.csv, <<>> while it does not exist
    log_data,       \* LogTab.log_data
    last_op,        \* the latest operation on the log
    log_before      \* log_file and log_data before that operation

wvars == <<run_flag, thread, ser, is_open, tpc, buffer_lines, spc, signals,
           nread, last_line, parse_calls, early_stop, start_noop,
           open_attempts, close_calls, session_lines, stop_mark>>
mvars == <<buffers, paused, health, last_logs, prev_buffers, last_rec, csv_mode>>
fvars == <<invoked, last_bad, last_path, escaped>>
rvars == <<panel_row, panel_shown, df_before, df_after>>
pvars == <<p_frame, p_row>>
tvars == <<thr_rec, thr_events>>
lvars == <<log_file, log_data, last_op, log_before>>
VARIABLES
    \* Dashboard
    preproc,        \* self.preproc: the worker it refers to, 0 for None
    dpc,            \* position of the GUI thread inside change_input_source
    active_input_source,    \* self.active_input_source
    workers,        \* per worker object: the state of its thread, its run
                    \* flag and the connections of its signals
    conn_state,     \* what TelemetryPanel.set_connection_state last showed,
                    \* and the worker it was shown for (0: none)
    dash_queue,     \* the worker signals posted to the GUI thread
    last_row_by     \* the worker whose record the consumers got last, 0
                    \* for none since the source was chosen

dvars == <<preproc, dpc, active_input_source, workers, conn_state, dash_queue,
           last_row_by>>

VARIABLES
    \* delivery of the records to the GUI thread
    frames,         \* non-empty frames whose sentinel the read loop has read
    emitted_ids,    \* the frames, by number, for which rowReady was emitted
    call_queue,     \* the slot calls posted to the GUI thread, oldest first
    received        \* per subscriber, the records its slot was called with

ovars == <<frames, emitted_ids, call_queue, received>>
evars == <<pvars, tvars, lvars, dvars, ovars>>
vars == <<wvars, mvars, fvars, rvars, evars>>

Sig(sig, reason, row) == [sig |-> sig, reason |-> reason, row |-> row]
Connected == Sig("connected", "port", EmptyRow)
Lost(reason) == Sig("connection_lost", reason, EmptyRow)
RowReady(row) == Sig("rowReady", "", row)

Emit(s, sg) == signals' = [signals EXCEPT ![s] = Append(@, sg)]

\* Thread.is_alive()
is_alive(s) == tpc[s] \notin {"idle", "done"}

NoHealth == [emitted |-> FALSE, sev |-> 0, reason |-> Nominal]
NoLogs == [events |-> <<>>, msgs |-> <<>>]

WorkerInit ==
    /\ run_flag = FALSE
    /\ thread = 0
    /\ ser = 0
    /\ is_open = [s \in Threads |-> FALSE]
    /\ tpc = [s \in Threads |-> "idle"]
    /\ buffer_lines = [s \in Threads |-> <<>>]
    /\ spc = "idle"
    /\ signals = [s \in Threads |-> <<>>]
    /\ nread = 0
    /\ last_line = <<>>
    /\ parse_calls = 0
    /\ early_stop = [s \in Threads |-> FALSE]
    /\ start_noop = FALSE
    /\ open_attempts = [s \in Threads |-> 0]
    /\ close_calls = [s \in Threads |-> 0]
    /\ session_lines = [s \in Threads |-> <<>>]
    /\ stop_mark = [s \in Threads |-> -1]

MonitorInit ==
    /\ buffers = InitBuffers
    /\ paused = FALSE
    /\ health = NoHealth
    /\ last_logs = NoLogs
    /\ prev_buffers = InitBuffers
    /\ last_rec = EmptyRow
    /\ csv_mode = "live"

\* LogTab.process_telemetry runs on the record as the slot connected to
\* rowReady and, while the CSV tab is in live mode, once more through
\* append_live_data -> data_updated -> _forward_to_plot_and_cockpit
Deliver(row) ==
    LET r1 == process_telemetry(buffers, paused, row)
        r == IF csv_mode = "live"
             THEN process_telemetry(r1.buffers, paused, row) ELSE r1
    IN /\ buffers' = r.buffers
       /\ prev_buffers' = IF csv_mode = "live" THEN r1.buffers ELSE buffers
       /\ last_rec' = row
       /\ health' = [emitted |-> r.emitted, sev |-> r.sev, reason |-> r.reason]
       /\ last_logs' = [events |-> r.events, msgs |-> r.msgs]
       /\ UNCHANGED <<paused, csv_mode>>

\* ------------------------------------------------------------------------
\* Dispatch of one record to its subscribers
\* ------------------------------------------------------------------------
\* panel: TelemetryPanel.update_telemetry, csv: CSVTab.append_live_data,
\* plot: PlotTab.update_plot_data, stage: MissionStageBar.set_telemetry_data,
\* log: LogTab.process_telemetry
Subscribers == {"panel", "csv", "plot", "stage", "log"}

\* the calls of _forward_to_plot_and_cockpit that its hasattr tests let
\* through (CockpitWidget and CockpitFloatingWindow have no update_telemetry)
ForwardChain == <<"plot", "stage", "log">>

Call(inv, x) == [inv EXCEPT ![x] = @ + 1]

\* _forward_to_plot_and_cockpit(row): the calls run in order inside one
\* try block; the first one that raises ends the block
RECURSIVE forward_to_plot_and_cockpit(_, _, _)
forward_to_plot_and_cockpit(chain, bad, inv) ==
    IF chain = <<>> THEN inv
    ELSE IF Head(chain) \in bad THEN Call(inv, Head(chain))
    ELSE forward_to_plot_and_cockpit(Tail(chain), bad, Call(inv, Head(chain)))

\* csvtab.data_updated.emit(row): each connected slot is called; an
\* exception of a slot is reported by the binding and does not reach the
\* other slots or the emitter
EmitDataUpdated(bad, inv) ==
    forward_to_plot_and_cockpit(ForwardChain, bad, Call(inv, "panel"))

\* preproc.rowReady.emit(row): the slots connected by change_input_source;
\* append_live_data re-emits the row through data_updated in live mode
EmitRowReady(bad, mode, inv) ==
    LET i1 == Call(inv, "panel")
        i2 == IF "csv" \notin bad /\ mode = "live"
              THEN EmitDataUpdated(bad, Call(i1, "csv")) ELSE Call(i1, "csv")
    IN Call(Call(Call(i2, "plot"), "stage"), "log")

NoCalls == [x \in Subscribers |-> 0]

FanInit ==
    /\ invoked = NoCalls
    /\ last_bad = {}
    /\ last_path = "none"
    /\ escaped = FALSE

\* the worker emits one record; bad are the subscribers that raise on it
DispatchRowReady(bad) ==
    /\ invoked' = EmitRowReady(bad, csv_mode, NoCalls)
    /\ last_bad' = bad
    /\ last_path' = "rowReady"
    /\ escaped' = FALSE
    /\ UNCHANGED <<wvars, mvars, rvars, evars>>

\* CSVTab.displaycsv on one row of the file: appendRow(row), which emits
\* data_updated, then data_updated.emit(row)
DisplayCsvRow(bad) ==
    /\ invoked' = EmitDataUpdated(bad, EmitDataUpdated(bad, NoCalls))
    /\ last_bad' = bad
    /\ last_path' = "data_updated"
    /\ escaped' = FALSE
    /\ UNCHANGED <<wvars, mvars, rvars, evars>>

\* CSVTab.mode_toggled
mode_toggled ==
    /\ csv_mode' = IF csv_mode = "live" THEN "file" ELSE "live"
    /\ UNCHANGED <<wvars, buffers, paused, health, last_logs, prev_buffers,
                   last_rec, fvars, rvars, evars>>

FanNext ==
    \/ \E bad \in SUBSET Subscribers : DispatchRowReady(bad)
    \/ \E bad \in SUBSET Subscribers : DisplayCsvRow(bad)
    \/ mode_toggled

\* ------------------------------------------------------------------------
\* Redundancy resolution
\* ------------------------------------------------------------------------
\* f"{col}_R"
RKey(col) ==
    CASE col = "bme_temp" -> "bme_temp_R"
      [] col = "gps_alt" -> "gps_alt_R"

\* the columns of flight_keys and gps_keys the model follows
PanelCols == {"bme_temp", "gps_alt"}

\* value in ("", "-", "nan")
InPlaceholders(value) == value.t = "str" /\ value.s \in {"", "-", "nan"}

\* the value update_telemetry displays for col (None is shown as "-")
ResolvePanel(row, col) ==
    LET value == Get(row, col)
    IN IF (value.t = "none" \/ InPlaceholders(value))
          /\ Get(row, RKey(col)).t # "none"
       THEN Get(row, RKey(col))
       ELSE value

\* f"{base}REDUNDANT"
RedundantCol(base) ==
    CASE base = "TempC" -> "TempCREDUNDANT"
      [] base = "Altitudem" -> "AltitudemREDUNDANT"

RepairBases == {"TempC", "Altitudem"}

\* df[prim].where((df[prim] != 0) & (~df[prim].isna()), df[red]) on one row
Where(prim, red) ==
    IF prim.t = "num" /\ prim.n # 0 THEN prim ELSE red

\* the repair loop on one row of the table
RepairRow(df) ==
    [c \in DOMAIN df |->
        IF c \in RepairBases /\ RedundantCol(c) \in DOMAIN df
        THEN Where(df[c], df[RedundantCol(c)])
        ELSE df[c]]

\* values a live or CSV row holds under a panel column
PanelValues == {Num(0), Num(25), Num(30), NaNV, Str(""), Str("nan")}
\* cells of the CSV table
CellValues == {Num(0), Num(25), Num(30), NaNV}

\* rows with the primary and the redundant key of one column, either absent
RowsOf(p, r, values) ==
    {[k \in {p, r} |-> IF k = p THEN a ELSE b] : a \in values, b \in values}
    \cup {[k \in {p} |-> a] : a \in values}
    \cup {[k \in {r} |-> b] : b \in values}
    \cup {EmptyRow}

ResolverInit ==
    /\ panel_row = EmptyRow
    /\ panel_shown = [c \in PanelCols |-> NoneV]
    /\ df_before = EmptyRow
    /\ df_after = EmptyRow

\* TelemetryPanel.update_telemetry(row)
update_telemetry(row) ==
    /\ panel_row' = row
    /\ panel_shown' = [c \in PanelCols |-> ResolvePanel(row, c)]
    /\ UNCHANGED <<wvars, mvars, fvars, df_before, df_after, evars>>

\* the redundancy repair of the training script on one row
redundancy_repair(df) ==
    /\ df_before' = df
    /\ df_after' = RepairRow(df)
    /\ UNCHANGED <<wvars, mvars, fvars, panel_row, panel_shown, evars>>

ResolverNext ==
    \/ \E c \in PanelCols :
          \E row \in RowsOf(c, RKey(c), PanelValues) : update_telemetry(row)
    \/ \E c \in RepairBases :
          \E df \in RowsOf(c, RedundantCol(c), CellValues) : redundancy_repair(df)

\* ------------------------------------------------------------------------
\* The log monitor fed one channel at a time
\* ------------------------------------------------------------------------
BaseSample == 20
SampleValues == {BaseSample, 120, -80}
MonitorKeys == {"TEMP", "VOLT", "CURR", "PRES", "HUM"}

Deviants(buf) == Cardinality({i \in 1..Len(buf) : buf[i] # BaseSample})

\* LogTab.process_telemetry({key: value})
ProcessSample(key, value) ==
    /\ \A k \in DOMAIN buffers : k # key => buffers[k] = <<>>
    /\ \E r \in {process_telemetry(buffers, paused, Put(EmptyRow, key, value))} :
          /\ \A k \in DOMAIN buffers : Deviants(r.buffers[k]) <= MaxDev
          /\ buffers' = r.buffers
          /\ health' = [emitted |-> r.emitted, sev |-> r.sev, reason |-> r.reason]
          /\ last_logs' = [events |-> r.events, msgs |-> r.msgs]
    /\ prev_buffers' = buffers
    /\ last_rec' = Put(EmptyRow, key, value)
    /\ UNCHANGED <<wvars, paused, csv_mode, fvars, rvars, evars>>

\* readings under keys that no rolling window tracks: a critical
\* temperature, a humidity out of range, an unusual pressure, a critically
\* low voltage, and a GPS without fix
StaticReadings ==
    [temperature |-> Num(120), humidity |-> Num(120), pressure |-> Num(1150),
     voltage |-> Num(2), GPS_RAW |-> Str("")]
StaticRecords ==
    {[k \in ks |-> StaticReadings[k]] : ks \in SUBSET DOMAIN StaticReadings} \ {EmptyRow}

\* LogTab.process_telemetry(d) for a record of several such readings (the
\* windows play no part in it: it is taken while they are empty)
ProcessRecord(d) ==
    /\ \A k \in DOMAIN buffers : buffers[k] = <<>>
    /\ \E r \in {process_telemetry(buffers, paused, d)} :
          /\ buffers' = r.buffers
          /\ health' = [emitted |-> r.emitted, sev |-> r.sev, reason |-> r.reason]
          /\ last_logs' = [events |-> r.events, msgs |-> r.msgs]
    /\ prev_buffers' = buffers
    /\ last_rec' = d
    /\ UNCHANGED <<wvars, paused, csv_mode, fvars, rvars, evars>>

\* LogTab._on_pause_toggled(checked)
on_pause_toggled(checked) ==
    /\ paused' = checked
    /\ UNCHANGED <<wvars, buffers, health, last_logs, prev_buffers, last_rec,
                   csv_mode, fvars, rvars, evars>>

MonitorNext ==
    \/ \E key \in MonitorKeys : \E v \in SampleValues :
          ProcessSample(key, Num(v))
    \/ \E key \in MonitorKeys : ProcessSample(key, Str("n/a"))
    \/ \E d \in StaticRecords : ProcessRecord(d)
    \/ \E checked \in BOOLEAN : on_pause_toggled(checked)

\* ------------------------------------------------------------------------
\* The log monitor fed one reading at a time while several windows hold
\* samples
\* ------------------------------------------------------------------------
\* samples the other windows may hold
MaxFill == 1

\* a window one sample short of window_size, of distinct samples
RampWindow == [i \in 1..(window_size - 1) |-> BaseSample + i]

\* the monitor after window_size - 1 records that carried one tracked key
WindowInit ==
    /\ \E kf \in DOMAIN InitBuffers :
          /\ buffers = [k \in DOMAIN InitBuffers |->
                           IF k = kf THEN RampWindow ELSE <<>>]
          /\ prev_buffers = buffers
    /\ paused = FALSE
    /\ health = NoHealth
    /\ last_logs = NoLogs
    /\ last_rec = EmptyRow
    /\ csv_mode = "live"

ReadingValues == {Num(BaseSample), NoneV, Str("n/a")}

\* LogTab.process_telemetry({key: value})
ProcessReading(key, value) ==
    /\ \E r \in {process_telemetry(buffers, paused, Put(EmptyRow, key, value))} :
          /\ \A k \in DOMAIN buffers :
                 Len(r.buffers[k]) <= MaxFill \/ Len(buffers[k]) >= window_size - 1
          /\ buffers' = r.buffers
          /\ health' = [emitted |-> r.emitted, sev |-> r.sev, reason |-> r.reason]
          /\ last_logs' = [events |-> r.events, msgs |-> r.msgs]
    /\ prev_buffers' = buffers
    /\ last_rec' = Put(EmptyRow, key, value)
    /\ UNCHANGED <<wvars, paused, csv_mode, fvars, rvars, evars>>

WindowNext ==
    \/ \E key \in MonitorKeys : \E value \in ReadingValues :
          ProcessReading(key, value)
    \/ \E checked \in BOOLEAN : on_pause_toggled(checked)

\* ------------------------------------------------------------------------
\* _parse_frame on frames of family lines
\* ------------------------------------------------------------------------
PrimaryPrefixes == {"Gyro:", "BME:", "BMP:", "GPS:"}

\* the redundant form of a prefix
RPrefix(prefix) ==
    CASE prefix = "Gyro:" -> "Gyro(R):"
      [] prefix = "BME:" -> "BME(R):"
      [] prefix = "BMP:" -> "BMP(R):"
      [] prefix = "GPS:" -> "GPS(R):"

\* payloads of each family: two complete ones with different values and
\* incomplete ones
Payloads(prefix) ==
    CASE prefix = "Gyro:" ->
           {<<F("", 1), F("", 2), F("", 3)>>, <<F("", 4), F("", 5), F("", 6)>>,
            <<F("", 7), F("", 8)>>}
      [] prefix = "BME:" ->
           {<<F("T=", 25), F("H=", 40), F("P=", 1000)>>,
            <<F("T=", 30), F("H=", 50), F("P=", 990)>>,
            <<F("T=", 35), F("H=", 60)>>}
      [] prefix = "BMP:" ->
           {<<F("T=", 24), F("P=", 1001), F("Alt=", 100)>>,
            <<F("T=", 29), F("P=", 991), F("Alt=", 200)>>,
            <<F("T=", 34), F("P=", 981)>>}
      [] prefix = "GPS:" ->
           {<<F("Lat=", 12), F("Lon=", 77), F("Alt=", 900), F("Vel=", 5)>>,
            <<F("Lat=", 13), F("Lon=", 78), F("Alt=", 910)>>,
            <<F("Vel=", 9)>>,
            <<F("Lat=", 14), F("Lon=", 79)>>}

FamilyLines ==
    UNION {{<<W(prefix)>> \o pl : pl \in Payloads(prefix)}
           \cup {<<W(RPrefix(prefix))>> \o pl : pl \in Payloads(prefix)}
           : prefix \in PrimaryPrefixes}
    \cup {L_UNKNOWN, L_BLANK}

ParserInit ==
    /\ p_frame = <<>>
    /\ p_row = EmptyRow

\* row = self._parse_frame(raw_lines), on the previous frame with one more
\* line
ParseFrame(line) ==
    /\ Len(p_frame) < MaxFrameLen
    /\ p_frame' = Append(p_frame, line)
    /\ p_row' = parse_frame(Append(p_frame, line))
    /\ UNCHANGED <<wvars, mvars, fvars, rvars, tvars, lvars, dvars, ovars>>

\* row = self._parse_frame([])
ParseEmptyFrame ==
    /\ p_frame # <<>>
    /\ p_frame' = <<>>
    /\ p_row' = parse_frame(<<>>)
    /\ UNCHANGED <<wvars, mvars, fvars, rvars, tvars, lvars, dvars, ovars>>

ParserNext ==
    \/ \E line \in FamilyLines : ParseFrame(line)
    \/ ParseEmptyFrame

\* ------------------------------------------------------------------------
\* check_telemetry_thresholds on records of one key
\* ------------------------------------------------------------------------
\* the two keys under which each family is looked up
FamilyOfKey(key) ==
    CASE key \in {"TEMP", "temperature"} -> "TEMP"
      [] key \in {"HUM", "humidity"} -> "HUM"
      [] key \in {"PRES", "pressure"} -> "PRES"
      [] key \in {"VOLT", "voltage"} -> "VOLT"
      [] key \in {"CURR", "current"} -> "CURR"
      [] key \in {"ALT", "altitude"} -> "ALT"
      [] key \in {"ACC", "acceleration"} -> "ACC"

ScalarKeys == {"TEMP", "temperature", "HUM", "humidity", "PRES", "pressure",
               "VOLT", "voltage", "CURR", "current", "ALT", "altitude"}
VectorKeys == {"ACC", "acceleration"}

\* readings below, inside and above the bounds of the families
ScalarSamples == {-2000, -600, -20, -5, 0, 2, 10, 45, 50, 90, 120, 250, 1000,
                  1150, 1300, 12000, 20000, 60000, 120000}
VectorSamples == {<<0, 0, 0>>, <<30, 40, 0>>, <<60, 0, 0>>, <<0, 0, 120>>}

ThresholdInit ==
    /\ thr_rec = EmptyRow
    /\ thr_events = <<>>

\* logs = check_telemetry_thresholds({key: value})
CheckThresholds(key, value) ==
    /\ thr_rec' = Put(EmptyRow, key, value)
    /\ thr_events' = check_telemetry_thresholds(Put(EmptyRow, key, value))
    /\ UNCHANGED <<wvars, mvars, fvars, rvars, pvars, lvars, dvars, ovars>>

ThresholdNext ==
    \/ \E key \in ScalarKeys, x \in ScalarSamples : CheckThresholds(key, Num(x))
    \/ \E key \in VectorKeys, v \in VectorSamples : CheckThresholds(key, CsvStr(v))

\* ------------------------------------------------------------------------
\* The persisted log: ensure_logfile, save_log_to_file, add_log, clear_logs
\* (the Time column is left out, Location and Details follow the message)
\* ------------------------------------------------------------------------
HEADER == [Type |-> "Type", Message |-> "Message", ML_Flag |-> "ML_Flag"]

\* messages that carry one of the keywords of ml_check
KeywordMessages == {"Temperature critical", "TEMP anomaly"}

\* ml_check(log_type, msg, details)[0]
ml_check(log_type, message) ==
    log_type = "CRITICAL" \/ message \in KeywordMessages

\* the entry add_log builds, and the row it writes (ML_Flag as int)
Entry(log_type, message) ==
    [Type |-> log_type, Message |-> message, ML_Flag |-> ml_check(log_type, message)]
FileRow(entry) ==
    [Type |-> entry.Type, Message |-> entry.Message,
     ML_Flag |-> IF entry.ML_Flag THEN "1" ELSE "0"]

\* ensure_logfile(): a missing file is created with the header row
ensure_logfile(file) == IF file = <<>> THEN <<HEADER>> ELSE file

\* save_log_to_file(row): opened in mode "a"
save_log_to_file(file, row) == Append(ensure_logfile(file), row)

\* what callers of add_log pass: threshold events, anomalies, terminal lines
LogInputs == {<<"CRITICAL", "Temperature critical">>, <<"WARNING", "Battery low">>,
              <<"ML", "TEMP anomaly">>, <<"INFO", "terminal line">>}

InitializedEntry == Entry("INFO", "Log system initialized")
ClearedEntry == Entry("INFO", "Logs cleared")

\* the state after LogTab.__init__ on a machine without a log file
LogInit ==
    /\ log_file = save_log_to_file(<<>>, FileRow(InitializedEntry))
    /\ log_data = <<InitializedEntry>>
    /\ last_op = "init"
    /\ log_before = [file |-> <<>>, data |-> <<>>]

\* LogTab.add_log(log_type, location, message, details)
add_log(log_type, message) ==
    /\ Len(log_file) <= MaxLogRows
    /\ log_file' = save_log_to_file(log_file, FileRow(Entry(log_type, message)))
    /\ log_data' = Append(log_data, Entry(log_type, message))
    /\ last_op' = "add_log"
    /\ log_before' = [file |-> log_file, data |-> log_data]
    /\ UNCHANGED <<wvars, mvars, fvars, rvars, pvars, tvars, dvars, ovars>>

\* a clear that appends its entry without truncating anything
clear_logs_keep ==
    /\ Len(log_file) <= MaxLogRows
    /\ log_file' = save_log_to_file(log_file, FileRow(ClearedEntry))
    /\ log_data' = Append(log_data, ClearedEntry)
    /\ last_op' = "clear_logs"
    /\ log_before' = [file |-> log_file, data |-> log_data]
    /\ UNCHANGED <<wvars, mvars, fvars, rvars, pvars, tvars, dvars, ovars>>

\* LogTab.clear_logs(): log_data = [], the file is rewritten in mode "w"
\* with the header, then add_log("INFO", "LogTab", "Logs cleared", ...)
clear_logs ==
    /\ log_file' = save_log_to_file(<<HEADER>>, FileRow(ClearedEntry))
    /\ log_data' = Append(<<>>, ClearedEntry)
    /\ last_op' = "clear_logs"
    /\ log_before' = [file |-> log_file, data |-> log_data]
    /\ UNCHANGED <<wvars, mvars, fvars, rvars, pvars, tvars, dvars, ovars>>

\* LogTab.__init__ of a later run of the program: the file is still there
LogTabInit ==
    /\ Len(log_file) <= MaxLogRows
    /\ log_file' = save_log_to_file(log_file, FileRow(InitializedEntry))
    /\ log_data' = <<InitializedEntry>>
    /\ last_op' = "init"
    /\ log_before' = [file |-> log_file, data |-> <<>>]
    /\ UNCHANGED <<wvars, mvars, fvars, rvars, pvars, tvars, dvars, ovars>>

LogNext ==
    \/ \E in \in LogInputs : add_log(in[1], in[2])
    \/ clear_logs
    \/ LogTabInit

\* ------------------------------------------------------------------------
\* XBeeTelemetryWorker.start / stop (caller thread)
\* ------------------------------------------------------------------------
\* the slot the Thread object created by start() takes
FreeSlots == {s \in Threads : ~is_alive(s)}
NewSlot == CHOOSE s \in FreeSlots : \A u \in FreeSlots : s <= u

\* the records among the signals of a session
Rows(seq) == Cardinality({i \in 1..Len(seq) : seq[i].sig = "rowReady"})

\* stop() returns: every live session that saw no stop() return before
\* notes the records it has emitted so far
StopReturns ==
    [s \in Threads |->
        IF is_alive(s) /\ stop_mark[s] = -1 THEN Rows(signals[s]) ELSE stop_mark[s]]

\* start() without its is_alive guard
start_unguarded ==
    /\ spc = "idle"
    /\ FreeSlots # {}
    /\ run_flag' = TRUE
    /\ thread' = NewSlot
    /\ tpc' = [tpc EXCEPT ![NewSlot] = "open"]
    /\ signals' = [signals EXCEPT ![NewSlot] = <<>>]
    /\ early_stop' = [early_stop EXCEPT ![NewSlot] = FALSE]
    /\ open_attempts' = [open_attempts EXCEPT ![NewSlot] = 0]
    /\ session_lines' = [session_lines EXCEPT ![NewSlot] = <<>>]
    /\ stop_mark' = [stop_mark EXCEPT ![NewSlot] = -1]
    /\ UNCHANGED <<ser, is_open, buffer_lines, spc, nread, last_line,
                   parse_calls, start_noop, mvars, fvars, rvars, evars,
                   close_calls>>

start ==
    /\ spc = "idle"
    /\ IF thread # 0 /\ is_alive(thread)
       THEN /\ start_noop' = TRUE
            /\ UNCHANGED <<run_flag, thread, tpc, signals, early_stop,
                           open_attempts, session_lines, stop_mark>>
       ELSE /\ FreeSlots # {}
            /\ run_flag' = TRUE
            /\ thread' = NewSlot
            /\ tpc' = [tpc EXCEPT ![NewSlot] = "open"]
            /\ signals' = [signals EXCEPT ![NewSlot] = <<>>]
            /\ early_stop' = [early_stop EXCEPT ![NewSlot] = FALSE]
            /\ open_attempts' = [open_attempts EXCEPT ![NewSlot] = 0]
            /\ session_lines' = [session_lines EXCEPT ![NewSlot] = <<>>]
            /\ stop_mark' = [stop_mark EXCEPT ![NewSlot] = -1]
            /\ UNCHANGED start_noop
    /\ UNCHANGED <<ser, is_open, buffer_lines, spc, nread, last_line,
                   parse_calls, mvars, fvars, rvars, evars,
                   close_calls>>

\* stop(): self._run_flag = False
StopBegin ==
    /\ spc = "idle"
    /\ run_flag' = FALSE
    /\ spc' = "s_check"
    /\ early_stop' = IF thread # 0 /\ is_alive(thread) /\ nread = 0
                     THEN [early_stop EXCEPT ![thread] = TRUE]
                     ELSE early_stop
    /\ UNCHANGED <<thread, ser, is_open, tpc, buffer_lines, signals, nread,
                   last_line, parse_calls, start_noop, open_attempts, mvars, fvars, rvars, evars,
                   close_calls, session_lines, stop_mark>>

\* a stop() that waits for the read-loop thread before it goes on
StopCheck_join ==
    /\ spc = "s_check"
    /\ IF thread = 0 THEN TRUE ELSE ~is_alive(thread)
    /\ spc' = IF ser # 0 /\ is_open[ser] THEN "s_close" ELSE "idle"
    /\ stop_mark' = IF ser # 0 /\ is_open[ser] THEN stop_mark ELSE StopReturns
    /\ UNCHANGED <<run_flag, thread, ser, is_open, tpc, buffer_lines, signals,
                   nread, last_line, parse_calls, early_stop,
                   start_noop, open_attempts, mvars, fvars, rvars, evars,
                   close_calls, session_lines>>

\* stop(): if self._ser and self._ser.is_open
StopCheck ==
    /\ spc = "s_check"
    /\ spc' = IF ser # 0 /\ is_open[ser] THEN "s_close" ELSE "idle"
    /\ stop_mark' = IF ser # 0 /\ is_open[ser] THEN stop_mark ELSE StopReturns
    /\ UNCHANGED <<run_flag, thread, ser, is_open, tpc, buffer_lines, signals,
                   nread, last_line, parse_calls, early_stop,
                   start_noop, open_attempts, mvars, fvars, rvars, evars,
                   close_calls, session_lines>>

\* stop(): self._ser.close()
StopClose ==
    /\ spc = "s_close"
    /\ is_open' = [is_open EXCEPT ![ser] = FALSE]
    /\ spc' = "idle"
    /\ close_calls' = [close_calls EXCEPT ![ser] = @ + 1]
    /\ stop_mark' = StopReturns
    /\ UNCHANGED <<run_flag, thread, ser, tpc, buffer_lines, signals, nread,
                   last_line, parse_calls, early_stop, start_noop,
                   open_attempts, mvars, fvars, rvars, evars,
                   session_lines>>

\* ------------------------------------------------------------------------
\* XBeeTelemetryWorker._run_worker (read-loop thread of session s)
\* ------------------------------------------------------------------------
\* an open that leaves the buffer of the earlier session in place
OpenOk_keepbuffer(s) ==
    /\ tpc[s] = "open"
    /\ open_attempts' = [open_attempts EXCEPT ![s] = @ + 1]
    /\ ser' = s
    /\ is_open' = [is_open EXCEPT ![s] = TRUE]
    /\ Emit(s, Connected)
    /\ tpc' = [tpc EXCEPT ![s] = "loop"]
    /\ close_calls' = [close_calls EXCEPT ![s] = 0]
    /\ UNCHANGED <<buffer_lines, run_flag, thread, spc, nread, last_line,
                   parse_calls, early_stop, start_noop, mvars, fvars, rvars, evars,
                   session_lines, stop_mark>>

\* serial.Serial(...) succeeds; connected is emitted; buffer_lines = []
OpenOk(s) ==
    /\ tpc[s] = "open"
    /\ open_attempts' = [open_attempts EXCEPT ![s] = @ + 1]
    /\ ser' = s
    /\ is_open' = [is_open EXCEPT ![s] = TRUE]
    /\ Emit(s, Connected)
    /\ buffer_lines' = [buffer_lines EXCEPT ![s] = <<>>]
    /\ tpc' = [tpc EXCEPT ![s] = "loop"]
    /\ close_calls' = [close_calls EXCEPT ![s] = 0]
    /\ UNCHANGED <<run_flag, thread, spc, nread, last_line,
                   parse_calls, early_stop, start_noop, mvars, fvars, rvars, evars,
                   session_lines, stop_mark>>

\* the open failure running into the cleanup path instead of returning
OpenFail_fallthrough(s) ==
    /\ tpc[s] = "open"
    /\ open_attempts' = [open_attempts EXCEPT ![s] = @ + 1]
    /\ Emit(s, Lost("OPEN FAIL"))
    /\ tpc' = [tpc EXCEPT ![s] = "fin_check"]
    /\ UNCHANGED <<run_flag, thread, ser, is_open, buffer_lines, spc, nread,
                   last_line, parse_calls, early_stop, start_noop,
                   mvars, fvars, rvars, evars,
                   close_calls, session_lines, stop_mark>>

\* serial.Serial(...) raises: OPEN FAIL is emitted and the thread returns
OpenFail(s) ==
    /\ tpc[s] = "open"
    /\ open_attempts' = [open_attempts EXCEPT ![s] = @ + 1]
    /\ Emit(s, Lost("OPEN FAIL"))
    /\ tpc' = [tpc EXCEPT ![s] = "done"]
    /\ UNCHANGED <<run_flag, thread, ser, is_open, buffer_lines, spc, nread,
                   last_line, parse_calls, early_stop, start_noop,
                   mvars, fvars, rvars, evars,
                   close_calls, session_lines, stop_mark>>

\* a loop that does not test the run flag
LoopCheck_forever(s) ==
    /\ tpc[s] = "loop"
    /\ tpc' = [tpc EXCEPT ![s] = "read"]
    /\ UNCHANGED <<run_flag, thread, ser, is_open, buffer_lines, spc, signals,
                   nread, last_line, parse_calls, early_stop,
                   start_noop, open_attempts, mvars, fvars, rvars, evars,
                   close_calls, session_lines, stop_mark>>

\* a loop that runs for as long as the port is open
LoopCheck_open(s) ==
    /\ tpc[s] = "loop"
    /\ tpc' = [tpc EXCEPT ![s] = IF ser # 0 /\ is_open[ser] THEN "read" ELSE "fin_check"]
    /\ UNCHANGED <<run_flag, thread, ser, is_open, buffer_lines, spc, signals,
                   nread, last_line, parse_calls, early_stop,
                   start_noop, open_attempts, mvars, fvars, rvars, evars,
                   close_calls, session_lines, stop_mark>>

\* while self._run_flag
LoopCheck(s) ==
    /\ tpc[s] = "loop"
    /\ tpc' = [tpc EXCEPT ![s] = IF run_flag THEN "read" ELSE "fin_check"]
    /\ UNCHANGED <<run_flag, thread, ser, is_open, buffer_lines, spc, signals,
                   nread, last_line, parse_calls, early_stop,
                   start_noop, open_attempts, mvars, fvars, rvars, evars,
                   close_calls, session_lines, stop_mark>>

\* readline() returns nothing within the timeout: continue
ReadTimeout(s) ==
    /\ tpc[s] = "read"
    /\ tpc' = [tpc EXCEPT ![s] = "loop"]
    /\ UNCHANGED <<run_flag, thread, ser, is_open, buffer_lines, spc, signals,
                   nread, last_line, parse_calls, early_stop,
                   start_noop, open_attempts, mvars, fvars, rvars, evars,
                   close_calls, session_lines, stop_mark>>

\* what the lines read since the latest sentinel become when a line is read
SessionLines(seen, line) ==
    IF HasSentinel(line) THEN <<>>
    ELSE IF StartsWith(line, "---") THEN seen
    ELSE Append(seen, line)

\* a reassembler that parses and emits at every buffered line
Reassemble_eager(buf, line) ==
    IF StartsWith(line, "---")
    THEN [buffer |-> buf, parsed |-> FALSE, rows |-> <<>>]
    ELSE [buffer |-> <<>>,
          parsed |-> TRUE,
          rows |-> IF DOMAIN parse_frame(Append(buf, line)) # {}
                   THEN <<parse_frame(Append(buf, line))>> ELSE <<>>]

\* a reassembler that emits whatever a non-empty buffer parsed to
Reassemble_emit_empty(buf, line) ==
    IF HasSentinel(line)
    THEN [buffer |-> <<>>,
          parsed |-> buf # <<>>,
          rows |-> IF buf # <<>> THEN <<parse_frame(buf)>> ELSE <<>>]
    ELSE IF ~StartsWith(line, "---")
    THEN [buffer |-> Append(buf, line), parsed |-> FALSE, rows |-> <<>>]
    ELSE [buffer |-> buf, parsed |-> FALSE, rows |-> <<>>]

\* lines 160-167 on one line: the new buffer, whether _parse_frame was
\* called, and the records emitted
Reassemble(buf, line) ==
    IF HasSentinel(line)
    THEN [buffer |-> <<>>,
          parsed |-> buf # <<>>,
          rows |-> IF buf # <<>> /\ DOMAIN parse_frame(buf) # {}
                   THEN <<parse_frame(buf)>> ELSE <<>>]
    ELSE IF ~StartsWith(line, "---")
    THEN [buffer |-> Append(buf, line), parsed |-> FALSE, rows |-> <<>>]
    ELSE [buffer |-> buf, parsed |-> FALSE, rows |-> <<>>]

\* readline() returns a line, which is decoded and stripped
ReadLine(s, line) ==
    /\ tpc[s] = "read"
    /\ ser # 0 /\ is_open[ser]
    /\ nread < MaxReads
    /\ nread' = nread + 1
    /\ last_line' = line
    /\ tpc' = [tpc EXCEPT ![s] = "handle"]
    /\ UNCHANGED <<run_flag, thread, ser, is_open, buffer_lines, spc, signals,
                   parse_calls, early_stop, start_noop, open_attempts, mvars,
                   fvars, rvars, evars, close_calls, session_lines, stop_mark>>

\* lines 160-167 on the line just read: it is reassembled and a record is
\* emitted when it completes a frame
HandleLine(s) ==
    /\ tpc[s] = "handle"
    /\ LET r == Reassemble(buffer_lines[s], last_line)
       IN /\ buffer_lines' = [buffer_lines EXCEPT ![s] = r.buffer]
          /\ parse_calls' = IF r.parsed THEN parse_calls + 1 ELSE parse_calls
          /\ IF r.rows # <<>>
             THEN Emit(s, RowReady(r.rows[1])) /\ Deliver(r.rows[1])
             ELSE UNCHANGED <<signals, mvars>>
    /\ tpc' = [tpc EXCEPT ![s] = "loop"]
    /\ session_lines' = [session_lines EXCEPT ![s] = SessionLines(@, last_line)]
    /\ UNCHANGED <<run_flag, thread, ser, is_open, spc, nread, last_line,
                   early_stop, start_noop, open_attempts, fvars, rvars, evars,
                   close_calls, stop_mark>>

\* a read error that is reported and followed by the next loop turn
ReadError_continue(s) ==
    /\ tpc[s] = "read"
    /\ Emit(s, Lost("READ ERR"))
    /\ tpc' = [tpc EXCEPT ![s] = "loop"]
    /\ UNCHANGED <<run_flag, thread, ser, is_open, buffer_lines, spc, nread,
                   last_line, parse_calls, early_stop, start_noop,
                   open_attempts, mvars, fvars, rvars, evars,
                   close_calls, session_lines, stop_mark>>

\* readline() raises (device failure, or the handle was closed by stop())
ReadError(s) ==
    /\ tpc[s] = "read"
    /\ Emit(s, Lost("READ ERR"))
    /\ tpc' = [tpc EXCEPT ![s] = "fin_check"]
    /\ UNCHANGED <<run_flag, thread, ser, is_open, buffer_lines, spc, nread,
                   last_line, parse_calls, early_stop, start_noop,
                   open_attempts, mvars, fvars, rvars, evars,
                   close_calls, session_lines, stop_mark>>

\* an exception of the loop body that is reported inside the loop, which
\* goes on with its next turn
ThreadError_continue(s) ==
    /\ tpc[s] = "handle"
    /\ HasSentinel(last_line)
    /\ buffer_lines[s] # <<>>
    /\ parse_calls' = parse_calls + 1
    /\ Emit(s, Lost("THREAD ERR"))
    /\ tpc' = [tpc EXCEPT ![s] = "loop"]
    /\ session_lines' = [session_lines EXCEPT ![s] = SessionLines(@, last_line)]
    /\ UNCHANGED <<run_flag, thread, ser, is_open, buffer_lines, spc, nread, last_line,
                   early_stop, start_noop, open_attempts, mvars, fvars, rvars, evars,
                   close_calls, stop_mark>>

\* an exception escapes the loop body outside the inner try (raised while
\* the frame that the sentinel just read completes is parsed and emitted)
ThreadError(s) ==
    /\ tpc[s] = "handle"
    /\ HasSentinel(last_line)
    /\ buffer_lines[s] # <<>>
    /\ parse_calls' = parse_calls + 1
    /\ Emit(s, Lost("THREAD ERR"))
    /\ tpc' = [tpc EXCEPT ![s] = "fin_check"]
    /\ session_lines' = [session_lines EXCEPT ![s] = SessionLines(@, last_line)]
    /\ UNCHANGED <<run_flag, thread, ser, is_open, buffer_lines, spc, nread, last_line,
                   early_stop, start_noop, open_attempts, mvars, fvars, rvars, evars,
                   close_calls, stop_mark>>

\* finally: if self._ser and self._ser.is_open
FinCheck(s) ==
    /\ tpc[s] = "fin_check"
    /\ tpc' = [tpc EXCEPT ![s] = IF ser # 0 /\ is_open[ser] THEN "fin_close"
                                 ELSE "fin_emit"]
    /\ UNCHANGED <<run_flag, thread, ser, is_open, buffer_lines, spc, signals,
                   nread, last_line, parse_calls, early_stop,
                   start_noop, open_attempts, mvars, fvars, rvars, evars,
                   close_calls, session_lines, stop_mark>>

\* finally: self._ser.close()
FinClose(s) ==
    /\ tpc[s] = "fin_close"
    /\ is_open' = [is_open EXCEPT ![ser] = FALSE]
    /\ tpc' = [tpc EXCEPT ![s] = "fin_emit"]
    /\ close_calls' = [close_calls EXCEPT ![ser] = @ + 1]
    /\ UNCHANGED <<run_flag, thread, ser, buffer_lines, spc, signals, nread,
                   last_line, parse_calls, early_stop, start_noop,
                   open_attempts, mvars, fvars, rvars, evars,
                   session_lines, stop_mark>>

\* a cleanup path that ends without the final signal
FinEmit_silent(s) ==
    /\ tpc[s] = "fin_emit"
    /\ tpc' = [tpc EXCEPT ![s] = "done"]
    /\ UNCHANGED <<run_flag, thread, ser, is_open, buffer_lines, spc, signals,
                   nread, last_line, parse_calls, early_stop,
                   start_noop, open_attempts, mvars, fvars, rvars, evars,
                   close_calls, session_lines, stop_mark>>

\* finally: self.connection_lost.emit("PORT CLOSED"); the thread ends
FinEmit(s) ==
    /\ tpc[s] = "fin_emit"
    /\ Emit(s, Lost("PORT CLOSED"))
    /\ tpc' = [tpc EXCEPT ![s] = "done"]
    /\ UNCHANGED <<run_flag, thread, ser, is_open, buffer_lines, spc, nread,
                   last_line, parse_calls, early_stop, start_noop,
                   open_attempts, mvars, fvars, rvars, evars,
                   close_calls, session_lines, stop_mark>>

\* ------------------------------------------------------------------------
\* Dashboard: switching the input source
\* ------------------------------------------------------------------------
Workers == 1..MaxWorkers

\* the connections change_input_source makes on a new worker, in order
\* (CockpitWidget and CockpitFloatingWindow have no update_telemetry)
Connections ==
    <<[sig |-> "connected", slot |-> "set_connection_state"],
      [sig |-> "connection_lost", slot |-> "set_connection_state"],
      [sig |-> "rowReady", slot |-> "panel"],
      [sig |-> "rowReady", slot |-> "csv"],
      [sig |-> "rowReady", slot |-> "plot"],
      [sig |-> "rowReady", slot |-> "stage"],
      [sig |-> "rowReady", slot |-> "log"]>>
AllConnections == {Connections[i] : i \in 1..Len(Connections)}

NoWorker == [state |-> "none", run_flag |-> FALSE, opened |-> FALSE, conns |-> {}]

\* set_connection_state(connected, text), called for the worker by
Shown(connected, text, by) == [connected |-> connected, text |-> text, by |-> by]

\* a signal of worker w posted to the GUI thread
Posted(w, sig, text) == [w |-> w, sig |-> sig, text |-> text]

\* the (name, details) pairs the source selector sends
InputSources ==
    {<<"xbee_serial", Str("COM3")>>, <<"xbee_wired", Str("COM4")>>,
     <<"xbee_serial", NoneV>>, <<"csv", NoneV>>, <<"none", NoneV>>}

DashInit ==
    /\ preproc = 0
    /\ dpc = "idle"
    /\ active_input_source = "none"
    /\ workers = [w \in Workers |-> NoWorker]
    /\ conn_state = Shown(FALSE, "DISCONNECTED", 0)
    /\ dash_queue = <<>>
    /\ last_row_by = 0

\* change_input_source(name, details) up to the branch on the name:
\* _stop_preproc_if_running() calls stop() on the current worker, which
\* clears its run flag, and drops the reference to it
ChangeInputSource(name, details) ==
    /\ dpc = "idle"
    /\ workers' = IF preproc # 0
                  THEN [workers EXCEPT ![preproc].run_flag = FALSE]
                  ELSE workers
    /\ preproc' = 0
    /\ active_input_source' = name
    /\ dpc' = IF name \in {"xbee_serial", "xbee_wired"} /\ Truthy(details)
              THEN "create" ELSE "idle"
    /\ conn_state' =
          IF name \in {"xbee_serial", "xbee_wired"}
          THEN IF Truthy(details) THEN Shown(FALSE, "DISCONNECTED", 0)
               ELSE Shown(FALSE, "XBee:NO PORT", 0)
          ELSE IF name = "csv" THEN Shown(FALSE, "CSV MODE", 0)
          ELSE Shown(FALSE, "NO INPUT", 0)
    /\ last_row_by' = 0
    /\ UNCHANGED <<dash_queue, wvars, mvars, fvars, rvars, pvars, tvars, lvars, ovars>>

\* self.preproc = XBeeTelemetryWorker(port, baud)
CreateWorker ==
    /\ dpc = "create"
    /\ \E w \in Workers :
          /\ workers[w].state = "none"
          /\ \A v \in Workers : workers[v].state = "none" => w <= v
          /\ preproc' = w
          /\ workers' = [workers EXCEPT ![w] =
                            [state |-> "created", run_flag |-> FALSE, opened |-> FALSE,
                             conns |-> {}]]
    /\ dpc' = "connect"
    /\ UNCHANGED <<active_input_source, conn_state, dash_queue, last_row_by,
                   wvars, mvars, fvars, rvars, pvars, tvars, lvars, ovars>>

\* the next self.preproc.<signal>.connect(...)
Connect ==
    /\ dpc = "connect"
    /\ LET n == Cardinality(workers[preproc].conns) + 1
       IN /\ workers' = [workers EXCEPT ![preproc].conns = @ \cup {Connections[n]}]
          /\ dpc' = IF n = Len(Connections) THEN "start" ELSE "connect"
    /\ UNCHANGED <<preproc, active_input_source, conn_state, dash_queue,
                   last_row_by, wvars, mvars, fvars, rvars,
                   pvars, tvars, lvars, ovars>>

\* set_connection_state(True, f"XBee:{port}") and self.preproc.start():
\* the worker has no thread yet, one is started
StartWorker ==
    /\ dpc = "start"
    /\ conn_state' = Shown(TRUE, "XBee", preproc)
    /\ workers' = [workers EXCEPT ![preproc].state = "running",
                                  ![preproc].run_flag = TRUE]
    /\ dpc' = "idle"
    /\ UNCHANGED <<preproc, active_input_source, dash_queue, last_row_by, wvars, mvars, fvars, rvars,
                   pvars, tvars, lvars, ovars>>

\* _run_worker, its port open, sees the run flag cleared, leaves the loop
\* and emits connection_lost("PORT CLOSED") on its way out
ThreadStops(w) ==
    /\ workers[w].state = "running"
    /\ workers[w].opened
    /\ ~workers[w].run_flag
    /\ Len(dash_queue) < MaxPending
    /\ workers' = [workers EXCEPT ![w].state = "exited"]
    /\ dash_queue' = Append(dash_queue, Posted(w, "connection_lost", "PORT CLOSED"))
    /\ UNCHANGED <<preproc, dpc, active_input_source, conn_state, last_row_by,
                   wvars, mvars, fvars, rvars, pvars, tvars, lvars, ovars>>

\* _run_worker returns on its own: the open fails (OPEN FAIL), or a read
\* raises (READ ERR, then PORT CLOSED from the finally block)
ThreadFails(w) ==
    /\ workers[w].state = "running"
    /\ LET lost == IF workers[w].opened
                   THEN <<Posted(w, "connection_lost", "READ ERR"),
                          Posted(w, "connection_lost", "PORT CLOSED")>>
                   ELSE <<Posted(w, "connection_lost", "OPEN FAIL")>>
       IN /\ Len(dash_queue) + Len(lost) <= MaxPending
          /\ dash_queue' = dash_queue \o lost
    /\ workers' = [workers EXCEPT ![w].state = "exited"]
    /\ UNCHANGED <<preproc, dpc, active_input_source, conn_state, last_row_by,
                   wvars, mvars, fvars, rvars, pvars, tvars, lvars, ovars>>

\* the thread of worker w opens its port and emits connected
WorkerOpens(w) ==
    /\ workers[w].state = "running"
    /\ ~workers[w].opened
    /\ Len(dash_queue) < MaxPending
    /\ workers' = [workers EXCEPT ![w].opened = TRUE]
    /\ dash_queue' = Append(dash_queue, Posted(w, "connected", "XBee"))
    /\ UNCHANGED <<preproc, dpc, active_input_source, conn_state, last_row_by,
                   wvars, mvars, fvars, rvars, pvars, tvars, lvars, ovars>>

\* the loop of worker w, entered or in the turn it began before the flag
\* was cleared, completes a frame and emits rowReady
WorkerEmitsRow(w) ==
    /\ workers[w].state = "running"
    /\ workers[w].opened
    /\ Len(dash_queue) < MaxPending
    /\ dash_queue' = Append(dash_queue, Posted(w, "rowReady", ""))
    /\ UNCHANGED <<preproc, dpc, active_input_source, workers, conn_state,
                   last_row_by, wvars, mvars, fvars, rvars, pvars, tvars, lvars,
                   ovars>>

\* the GUI thread, outside change_input_source, runs the slots of the
\* oldest posted signal: the lambdas of connected and connection_lost call
\* set_connection_state, the slots of rowReady hand the record on
DashDispatch ==
    /\ dpc = "idle"
    /\ dash_queue # <<>>
    /\ LET c == Head(dash_queue)
       IN /\ conn_state' = IF c.sig = "connected" THEN Shown(TRUE, c.text, c.w)
                           ELSE IF c.sig = "connection_lost"
                           THEN Shown(FALSE, c.text, c.w)
                           ELSE conn_state
          /\ last_row_by' = IF c.sig = "rowReady" THEN c.w ELSE last_row_by
    /\ dash_queue' = Tail(dash_queue)
    /\ UNCHANGED <<preproc, dpc, active_input_source, workers, wvars, mvars,
                   fvars, rvars, pvars, tvars, lvars, ovars>>

\* a worker object is destroyed, and its connections with it, as soon as
\* nothing refers to it although the Dashboard dropped it while its
\* thread was running
Collect_unreferenced(w) ==
    /\ workers[w].state \in {"running", "exited"}
    /\ preproc # w
    /\ workers' = [workers EXCEPT ![w] = NoWorker]
    /\ UNCHANGED <<preproc, dpc, active_input_source, conn_state, dash_queue,
                   last_row_by, wvars, mvars, fvars, rvars,
                   pvars, tvars, lvars, ovars>>

\* a worker object is destroyed, and its connections with it, once
\* nothing refers to it: the Dashboard dropped it and its thread, whose
\* target is a bound method of the worker, has ended
Collect(w) ==
    /\ workers[w].state = "exited"
    /\ preproc # w
    /\ workers' = [workers EXCEPT ![w] = NoWorker]
    /\ UNCHANGED <<preproc, dpc, active_input_source, conn_state, dash_queue,
                   last_row_by, wvars, mvars, fvars, rvars,
                   pvars, tvars, lvars, ovars>>

DashNext ==
    \/ \E src \in InputSources : ChangeInputSource(src[1], src[2])
    \/ CreateWorker
    \/ Connect
    \/ StartWorker
    \/ \E w \in Workers : ThreadStops(w)
    \/ \E w \in Workers : ThreadFails(w)
    \/ \E w \in Workers : Collect(w)
    \/ \E w \in Workers : WorkerOpens(w)
    \/ \E w \in Workers : WorkerEmitsRow(w)
    \/ DashDispatch

\* ------------------------------------------------------------------------
\* Delivery of the records from the read loop to the subscribers
\* ------------------------------------------------------------------------
\* the slots connected to rowReady, in the order of their connection
RECURSIVE SlotsOf(_, _)
SlotsOf(conns, sig) ==
    IF conns = <<>> THEN <<>>
    ELSE IF Head(conns).sig = sig
         THEN <<Head(conns).slot>> \o SlotsOf(Tail(conns), sig)
         ELSE SlotsOf(Tail(conns), sig)
RowReadySlots == SlotsOf(Connections, "rowReady")

\* the calls one emission of rowReady posts: the signal is emitted in the
\* read-loop thread and its receivers live in the GUI thread, so each
\* connection gets one call event, in connection order
RECURSIVE PostedCalls(_, _)
PostedCalls(slots, id) ==
    IF slots = <<>> THEN <<>>
    ELSE <<[slot |-> Head(slots), id |-> id]>> \o PostedCalls(Tail(slots), id)

Receive(rcv, x, id) == [rcv EXCEPT ![x] = Append(@, id)]

RECURSIVE ReceiveAll(_, _, _)
ReceiveAll(rcv, chain, id) ==
    IF chain = <<>> THEN rcv
    ELSE ReceiveAll(Receive(rcv, Head(chain), id), Tail(chain), id)

\* the slot of one subscriber called with one record: append_live_data in
\* live mode appends the row and emits data_updated, whose slots
\* (update_telemetry, then _forward_to_plot_and_cockpit) run inside the call
CallSlot(rcv, x, id, mode) ==
    IF x = "csv" /\ mode = "live"
    THEN ReceiveAll(Receive(Receive(rcv, "csv", id), "panel", id), ForwardChain, id)
    ELSE Receive(rcv, x, id)

OrderInit ==
    /\ frames = 0
    /\ emitted_ids = {}
    /\ call_queue = <<>>
    /\ received = [x \in Subscribers |-> <<>>]

\* the loop reads the sentinel of a non-empty frame that parses to a
\* record: self.rowReady.emit(parsed)
EmitRecord ==
    /\ frames < MaxRecords
    /\ frames' = frames + 1
    /\ emitted_ids' = emitted_ids \cup {frames + 1}
    /\ call_queue' = call_queue \o PostedCalls(RowReadySlots, frames + 1)
    /\ UNCHANGED <<received, wvars, mvars, fvars, rvars, pvars, tvars, lvars, dvars>>

\* the loop reads the sentinel of a non-empty frame that parses to
\* nothing: no record is emitted
SkipFrame ==
    /\ frames < MaxRecords
    /\ frames' = frames + 1
    /\ UNCHANGED <<emitted_ids, call_queue, received, wvars, mvars, fvars, rvars,
                   pvars, tvars, lvars, dvars>>

\* a GUI thread that runs the newest posted call first
DispatchCall_newest ==
    /\ call_queue # <<>>
    /\ LET c == call_queue[Len(call_queue)]
       IN received' = CallSlot(received, c.slot, c.id, csv_mode)
    /\ call_queue' = SubSeq(call_queue, 1, Len(call_queue) - 1)
    /\ UNCHANGED <<frames, emitted_ids, wvars, mvars, fvars, rvars, pvars, tvars,
                   lvars, dvars>>

\* the GUI thread's event loop runs the oldest posted call
DispatchCall ==
    /\ call_queue # <<>>
    /\ LET c == Head(call_queue)
       IN received' = CallSlot(received, c.slot, c.id, csv_mode)
    /\ call_queue' = Tail(call_queue)
    /\ UNCHANGED <<frames, emitted_ids, wvars, mvars, fvars, rvars, pvars, tvars,
                   lvars, dvars>>

OrderNext ==
    \/ EmitRecord
    \/ SkipFrame
    \/ DispatchCall
    \/ mode_toggled

Init ==
    /\ WorkerInit /\ MonitorInit /\ FanInit /\ ResolverInit
    /\ ParserInit /\ ThresholdInit /\ LogInit /\ DashInit
    /\ OrderInit

Next ==
    \/ start
    \/ StopBegin
    \/ StopCheck
    \/ StopClose
    \/ \E s \in Threads : OpenOk(s)
    \/ \E s \in Threads : OpenFail(s)
    \/ \E s \in Threads : LoopCheck(s)
    \/ \E s \in Threads : ReadTimeout(s)
    \/ \E s \in Threads, line \in Lines : ReadLine(s, line)
    \/ \E s \in Threads : HandleLine(s)
    \/ \E s \in Threads : ReadError(s)
    \/ \E s \in Threads : ThreadError(s)
    \/ \E s \in Threads : FinCheck(s)
    \/ \E s \in Threads : FinClose(s)
    \/ \E s \in Threads : FinEmit(s)

Spec == Init /\ [][Next]_vars

\* the dispatch of records taken alone
FanSpec == Init /\ [][FanNext]_vars

\* the log monitor taken alone
MonitorSpec == Init /\ [][MonitorNext]_vars

\* the redundancy resolvers taken alone
ResolverSpec == Init /\ [][ResolverNext]_vars

\* _parse_frame taken alone
ParserSpec == Init /\ [][ParserNext]_vars

\* check_telemetry_thresholds taken alone
ThresholdSpec == Init /\ [][ThresholdNext]_vars

\* the persisted log taken alone
LogSpec == Init /\ [][LogNext]_vars
DashSpec == Init /\ [][DashNext]_vars
OrderSpec == Init /\ [][OrderNext]_vars

\* the log monitor with samples in several windows
WindowStart ==
    /\ WorkerInit /\ WindowInit /\ FanInit /\ ResolverInit
    /\ ParserInit /\ ThresholdInit /\ LogInit /\ DashInit
    /\ OrderInit

WindowSpec == WindowStart /\ [][WindowNext]_vars

\* each read-loop thread is scheduled, and each readline() returns within
\* its timeout
ThreadStep(s) ==
    \/ OpenOk(s) \/ OpenFail(s) \/ LoopCheck(s) \/ ReadTimeout(s)
    \/ (\E line \in Lines : ReadLine(s, line))
    \/ ReadError(s) \/ ThreadError(s)
    \/ HandleLine(s)
    \/ FinCheck(s) \/ FinClose(s) \/ FinEmit(s)

FairSpec == Spec /\ \A s \in Threads : WF_vars(ThreadStep(s))

\* the caller thread keeps running inside stop(); nothing is assumed of
\* the read-loop threads
StopFairSpec == Spec /\ WF_vars(StopCheck \/ StopClose)

\* ------------------------------------------------------------------------
\* Properties of the worker
\* ------------------------------------------------------------------------
Count(seq, sg) == Cardinality({i \in 1..Len(seq) : seq[i] = sg})
RowCount(seq) == Cardinality({i \in 1..Len(seq) : seq[i].sig = "rowReady"})
LostCount(seq) ==
    Cardinality({i \in 1..Len(seq) : seq[i].sig = "connection_lost"})
Opened(s) == Count(signals[s], Connected) > 0
LastSig(s) == signals[s][Len(signals[s])]

\* C1: _parse_frame is called and rowReady is emitted only in the step that
\* handles a line containing the sentinel, right after that line was read,
\* and a sentinel read while the line buffer is empty emits no record.
C1_FrameOnlyAtSentinel ==
    [][/\ \A s \in Threads :
            RowCount(signals'[s]) > RowCount(signals[s])
                => /\ tpc[s] = "handle" /\ HasSentinel(last_line)
                   /\ buffer_lines[s] # <<>>
       /\ parse_calls' > parse_calls
            => /\ HasSentinel(last_line)
               /\ \E s \in Threads : tpc[s] = "handle" /\ tpc'[s] # "handle"]_vars

\* a sentinel was read on an empty buffer (nothing parsed), and a later
\* sentinel completed a frame that was emitted
C1_Witness ==
    /\ nread = 3 /\ parse_calls = 1 /\ HasSentinel(last_line)
    /\ \E s \in Threads :
          /\ signals[s] # <<>> /\ LastSig(s).sig = "rowReady"
          /\ DOMAIN LastSig(s).row = {"bme_temp", "bme_h", "bme_p"}
          /\ buffer_lines[s] = <<>>

\* C2 as stated: the record of the frame "BME: T=950 H=45 P=1000" has
\* bme_temp = 950, and LogTab.process_telemetry, which receives it through
\* rowReady, raises exactly one CRITICAL static event, whose message
\* carries 950.
C2_CriticalFor950 ==
    \A s \in Threads :
        (signals[s] # <<>> /\ LastSig(s).sig = "rowReady"
         /\ Get(LastSig(s).row, "bme_temp") = Num(950))
        => LET ev == last_logs.events
               crit == {i \in 1..Len(ev) : ev[i].type = "CRITICAL"}
           IN Cardinality(crit) = 1 /\ \A i \in crit : ev[i].msg.val = 950

\* C4 as stated: whichever way a read-loop thread ended, its last signal
\* is connection_lost("PORT CLOSED").
C4_PortClosedOnEveryExit ==
    \A s \in Threads :
        tpc[s] = "done" => (signals[s] # <<>> /\ LastSig(s) = Lost("PORT CLOSED"))

\* C4: a thread that opened the port ends with PORT CLOSED as its
\* last signal, PORT CLOSED is never followed by another signal of the
\* session, and a thread whose open failed ends without PORT CLOSED.
C4_PortClosedAfterOpen ==
    \A s \in Threads :
        /\ (tpc[s] = "done" /\ Opened(s)) => LastSig(s) = Lost("PORT CLOSED")
        /\ \A i \in 1..Len(signals[s]) :
              signals[s][i] = Lost("PORT CLOSED")
                 => (i = Len(signals[s]) /\ tpc[s] = "done")
        /\ (tpc[s] = "done" /\ ~Opened(s))
              => Count(signals[s], Lost("PORT CLOSED")) = 0

\* a session that opened the port and ended by an exception in the loop has
\* PORT CLOSED as its last signal
C4_Witness ==
    \E s \in Threads :
        /\ tpc[s] = "done"
        /\ signals[s] = <<Connected, Lost("THREAD ERR"), Lost("PORT CLOSED")>>

\* C5: a session whose open failed emits exactly one connection_lost, the
\* OPEN FAIL one, and no connected; the thread has ended after a single
\* open attempt.
C5_OpenFailOnce ==
    \A s \in Threads :
        /\ Count(signals[s], Lost("OPEN FAIL")) > 0
              => /\ signals[s] = <<Lost("OPEN FAIL")>>
                 /\ tpc[s] = "done"
                 /\ ~is_open[s]
        /\ open_attempts[s] <= 1

\* the open failed, the thread returned, and the caller has since called
\* stop(): OPEN FAIL is still the only signal of the session
C5_Witness ==
    \E s \in Threads :
        /\ signals[s] = <<Lost("OPEN FAIL")>>
        /\ open_attempts[s] = 1
        /\ tpc[s] = "done"
        /\ spc = "s_check"

\* C6 as stated: a session stopped before any line arrived ends with
\* exactly one PORT CLOSED.
C6_OnePortClosedAfterEarlyStop ==
    \A s \in Threads :
        (early_stop[s] /\ tpc[s] = "done")
            => Count(signals[s], Lost("PORT CLOSED")) = 1

\* C6: a session stopped before any line arrived terminates; it
\* has emitted exactly one PORT CLOSED when the port was opened and none
\* when the open failed.
C6_EarlyStopTerminates ==
    /\ [](\A s \in Threads :
            (early_stop[s] /\ tpc[s] = "done")
               => Count(signals[s], Lost("PORT CLOSED"))
                     = (IF Opened(s) THEN 1 ELSE 0))
    /\ \A s \in Threads : early_stop[s] ~> (tpc[s] = "done")

\* stop() ran before the thread opened the port, the port was opened, and
\* the thread ended with one PORT CLOSED and no line read
C6_Witness ==
    \E s \in Threads :
        /\ early_stop[s] /\ tpc[s] = "done" /\ nread = 0
        /\ signals[s] = <<Connected, Lost("PORT CLOSED")>>

\* C7: at most one read-loop thread is alive, at most one device handle is
\* open and it belongs to the live thread, each session emits connected at
\* most once, and while the thread is
\* alive no step replaces it or sets the run flag.
C7_StartIdempotent ==
    /\ [](/\ Cardinality({s \in Threads : is_alive(s)}) <= 1
          /\ Cardinality({s \in Threads : is_open[s]}) <= 1
          /\ \A s \in Threads : is_open[s] => is_alive(s)
          /\ \A s \in Threads : Count(signals[s], Connected) <= 1)
    /\ [][(thread # 0 /\ is_alive(thread))
             => (thread' = thread /\ (run_flag' => run_flag))]_vars

\* start() was called while the read loop was reading and returned at once
C7_Witness ==
    /\ start_noop
    /\ thread # 0 /\ tpc[thread] = "read" /\ is_open[thread]

\* ------------------------------------------------------------------------
\* Properties of the dispatch
\* ------------------------------------------------------------------------
\* the subscribers of a signal: the slots of rowReady, and the slots of
\* data_updated with the calls of the forwarding chain
PathSubscribers(path) ==
    CASE path = "rowReady" -> Subscribers
      [] path = "data_updated" -> {"panel", "plot", "stage", "log"}
      [] OTHER -> {}

\* C3: when a record is dispatched and some subscribers raise, every
\* other subscriber of that path still receives the record and no
\* exception reaches the emitter, on the rowReady path and on the
\* data_updated path with its forwarding chain.
C3_SubscriberIsolation ==
    /\ \A x \in PathSubscribers(last_path) \ last_bad : invoked[x] >= 1
    /\ ~escaped

\* ------------------------------------------------------------------------
\* Properties of the redundancy resolvers
\* ------------------------------------------------------------------------
Unusable(value) ==
    value.t = "none" \/ value.t = "nan" \/ (value.t = "num" /\ value.n = 0)
IsCell(value) == value.t \in {"none", "nan", "num"}

\* the value the rule of the claim selects from a primary and a redundant
Authoritative(prim, red) == IF Unusable(prim) THEN red ELSE prim

\* C8: the panel and the CSV repair return the primary value unless it is
\* absent, NaN or exactly zero, and then the redundant value; with both
\* zero or absent the result is zero or absent.
C8_RedundancyFallback ==
    /\ \A c \in PanelCols :
          (IsCell(Get(panel_row, c)) /\ IsCell(Get(panel_row, RKey(c))))
          => panel_shown[c] =
                Authoritative(Get(panel_row, c), Get(panel_row, RKey(c)))
    /\ \A c \in RepairBases :
          (c \in DOMAIN df_before /\ RedundantCol(c) \in DOMAIN df_before)
          => df_after[c] = Authoritative(df_before[c], df_before[RedundantCol(c)])

\* ------------------------------------------------------------------------
\* Properties of the rolling statistics
\* ------------------------------------------------------------------------
Uniform(buf) == \A i, j \in 1..Len(buf) : buf[i] = buf[j]
Flagged(key) ==
    \E i \in 1..Len(last_logs.msgs) : last_logs.msgs[i].key = key
\* the latest record gave update_and_check a sample for the tracked key
Sampled(key) ==
    /\ health.emitted
    /\ key \in DOMAIN last_rec
    /\ key \in DOMAIN buffers
    /\ safe_float(last_rec[key]) # <<>>
\* ... and the window of the key held only identical values, at a fill
\* level from the minimum of the statistics up to the capacity
AfterUniformWindow(key) ==
    /\ Sampled(key)
    /\ Len(prev_buffers[key]) >= MinSamples
    /\ Len(prev_buffers[key]) <= window_size
    /\ Uniform(prev_buffers[key])

\* C9 as stated: after a window of identical values, at every fill level
\* from 5 to 20, the next sample is never an anomaly.
C9_UniformWindowNeverFlags ==
    \A key \in DOMAIN buffers : AfterUniformWindow(key) => ~Flagged(key)

\* C9: the sample is appended before the statistics are taken, so after a
\* window of n identical values (5 <= n <= 20) the next sample is an
\* anomaly exactly when it differs from the constant and n >= 7.
C9_UniformWindowFlagsOutlier ==
    \A key \in DOMAIN buffers :
        AfterUniformWindow(key)
        => (Flagged(key) <=>
              /\ safe_float(last_rec[key])[1] # prev_buffers[key][1]
              /\ Len(prev_buffers[key]) >= 7)

C9_Witness ==
    \E key \in DOMAIN buffers :
        /\ AfterUniformWindow(key)
        /\ Len(prev_buffers[key]) = window_size
        /\ safe_float(last_rec[key])[1] # prev_buffers[key][1]
        /\ Flagged(key)

\* C10: no anomaly is returned for a tracked channel while its window,
\* counting the sample just added, holds fewer than 5 samples.
C10_NoAnomalyBelowMinSamples ==
    \A key \in DOMAIN buffers :
        (Sampled(key) /\ Len(buffers[key]) < MinSamples) => ~Flagged(key)

C10_Witness ==
    \E key \in DOMAIN buffers :
        /\ Sampled(key)
        /\ Len(buffers[key]) = MinSamples - 1
        /\ Len(prev_buffers[key]) = MinSamples - 2
        /\ Uniform(prev_buffers[key])
        /\ safe_float(last_rec[key])[1] # prev_buffers[key][1]
        /\ ~Flagged(key)

\* ------------------------------------------------------------------------
\* Properties of _parse_frame
\* ------------------------------------------------------------------------
\* the name of a primary field with the redundancy suffix
RName(k) ==
    CASE k = "gyro_x" -> "gyro_x_R" [] k = "gyro_y" -> "gyro_y_R"
      [] k = "gyro_z" -> "gyro_z_R"
      [] k = "bme_temp" -> "bme_temp_R" [] k = "bme_h" -> "bme_h_R"
      [] k = "bme_p" -> "bme_p_R"
      [] k = "bmp_temp" -> "bmp_temp_R" [] k = "bmp_p" -> "bmp_p_R"
      [] k = "bmp_alt" -> "bmp_alt_R"
      [] k = "gps_lat" -> "gps_lat_R" [] k = "gps_lon" -> "gps_lon_R"
      [] k = "gps_alt" -> "gps_alt_R" [] k = "gps_vel" -> "gps_vel_R"

\* the fields a line of each primary family can set
FamilyKeys(prefix) ==
    CASE prefix = "Gyro:" -> {"gyro_x", "gyro_y", "gyro_z"}
      [] prefix = "BME:" -> {"bme_temp", "bme_h", "bme_p"}
      [] prefix = "BMP:" -> {"bmp_temp", "bmp_p", "bmp_alt"}
      [] prefix = "GPS:" -> {"gps_lat", "gps_lon", "gps_alt", "gps_vel"}

PrimaryKeys == UNION {FamilyKeys(prefix) : prefix \in PrimaryPrefixes}
AllKeys == PrimaryKeys \cup {RName(k) : k \in PrimaryKeys}

\* a row with every field name suffixed
Suffixed(row) ==
    [kr \in {RName(k) : k \in DOMAIN row} |->
        row[CHOOSE k \in DOMAIN row : RName(k) = kr]]

\* the same payload under another prefix
WithPrefix(line, prefix) == <<W(prefix)>> \o Tail(line)

\* C18: a line with a redundant prefix yields the fields the same payload
\* yields under the primary prefix, each name suffixed _R, with the same
\* values, the Vel field of GPS included.
C18_RedundantParseMirrorsPrimary ==
    \A prefix \in PrimaryPrefixes :
        (Len(p_frame) = 1 /\ StartsWith(p_frame[1], RPrefix(prefix)))
        => p_row = Suffixed(parse_frame(<<WithPrefix(p_frame[1], prefix)>>))

\* the row of one line parsed alone
Alone(line) == parse_frame(<<line>>)
Last(idx) == CHOOSE i \in idx : \A j \in idx : j <= i

\* C20: within a frame the last write wins: every field of the record has
\* the value given by the last line that parsed it, a later line of the
\* family that fails to parse leaves the earlier values in place, and a
\* line of no known prefix leaves the record unchanged.
C20_LastWriteWinsPerField ==
    /\ \A k \in AllKeys :
          LET idx == {i \in 1..Len(p_frame) : k \in DOMAIN Alone(p_frame[i])}
          IN IF idx = {} THEN k \notin DOMAIN p_row
             ELSE k \in DOMAIN p_row /\ p_row[k] = Alone(p_frame[Last(idx)])[k]
    /\ DOMAIN p_row \subseteq AllKeys
    /\ DOMAIN Alone(L_UNKNOWN) = {}

\* two complete BME lines with different values: the record has the values
\* of the second
C20_Witness ==
    /\ Len(p_frame) = 2
    /\ StartsWith(p_frame[1], "BME:") /\ StartsWith(p_frame[2], "BME:")
    /\ Alone(p_frame[1]) # EmptyRow /\ Alone(p_frame[2]) # EmptyRow
    /\ Alone(p_frame[1]) # Alone(p_frame[2])
    /\ p_row = Alone(p_frame[2])

\* ------------------------------------------------------------------------
\* Properties of the static thresholds
\* ------------------------------------------------------------------------
\* ten times the reading of a scalar family, and for ACC the square of ten
\* times the magnitude, next to the bound (squared for ACC) in tenths
Beyond(fam, value, bound, above) ==
    LET t == SENSOR_THRESHOLDS[fam]
    IN /\ bound \in DOMAIN t
       /\ IF fam = "ACC"
          THEN above /\ 100 * SumSq(value.v) > t[bound] * t[bound]
          ELSE IF above THEN 10 * value.n > t[bound] ELSE 10 * value.n < t[bound]

BeyondCritical(fam, value) ==
    Beyond(fam, value, "critical_max", TRUE) \/ Beyond(fam, value, "critical_min", FALSE)
BeyondNormal(fam, value) ==
    Beyond(fam, value, "max", TRUE) \/ Beyond(fam, value, "min", FALSE)

\* C12: a present numeric value of a family is classified CRITICAL beyond
\* a critical bound, WARNING beyond a normal bound but within the critical
\* bounds, and raises no event within the normal bounds; at most one range
\* event is raised per family and record.
C12_RangeClassification ==
    \A key \in DOMAIN thr_rec :
        LET fam == FamilyOfKey(key)
            value == thr_rec[key]
        IN /\ Len(thr_events) <= 1
           /\ BeyondCritical(fam, value)
                 => (Len(thr_events) = 1 /\ thr_events[1].type = "CRITICAL")
           /\ (~BeyondCritical(fam, value) /\ BeyondNormal(fam, value))
                 => (Len(thr_events) = 1 /\ thr_events[1].type = "WARNING")
           /\ (~BeyondCritical(fam, value) /\ ~BeyondNormal(fam, value))
                 => thr_events = <<>>

\* ------------------------------------------------------------------------
\* Properties of the persisted log
\* ------------------------------------------------------------------------
IsPrefix(a, b) == Len(a) <= Len(b) /\ \A i \in 1..Len(a) : a[i] = b[i]

\* C14 as stated: after clear_logs the file holds the header row alone and
\* the in-memory list is empty.
C14_ClearLeavesHeaderOnly ==
    last_op = "clear_logs" => (log_file = <<HEADER>> /\ log_data = <<>>)

\* C14: add_log appends one row to the file and one entry to the list and
\* leaves the earlier ones as they were; after clear_logs the file holds
\* the header row and the row of the "Logs cleared" entry that clear_logs
\* itself logs, and the in-memory list holds that entry alone.
C14_AppendOnlyAndClear ==
    /\ log_file # <<>> /\ log_file[1] = HEADER
    /\ last_op = "add_log"
          => /\ Len(log_file) = Len(log_before.file) + 1
             /\ IsPrefix(log_before.file, log_file)
             /\ Len(log_data) = Len(log_before.data) + 1
             /\ IsPrefix(log_before.data, log_data)
             /\ log_file[Len(log_file)] = FileRow(log_data[Len(log_data)])
    /\ last_op = "clear_logs"
          => /\ log_file = <<HEADER, FileRow(ClearedEntry)>>
             /\ log_data = <<ClearedEntry>>

\* clear_logs ran on a log that held the header and MaxLogRows rows
C14_Witness ==
    /\ last_op = "clear_logs"
    /\ Len(log_before.file) = MaxLogRows + 1
    /\ Len(log_before.data) >= 2
    /\ log_file = <<HEADER, FileRow(ClearedEntry)>>

\* ------------------------------------------------------------------------
\* Properties of the health emission
\* ------------------------------------------------------------------------
Indices(events, types) == {i \in 1..Len(events) : events[i].type \in types}
\* the maximum severity over the events raised for the latest record
MaxSeverity ==
    IF Indices(last_logs.events, {"CRITICAL"}) # {} THEN 2
    ELSE IF Indices(last_logs.events, {"WARNING", "ERROR"}) # {}
            \/ last_logs.msgs # <<>> THEN 1
    ELSE 0
First(idx) == CHOOSE i \in idx : \A j \in idx : i <= j

\* C11 as stated: the emitted level is the maximum severity over the events
\* of the record and the emitted reason is the message of one of the events
\* of that severity, "Nominal" at level 0.
C11_ReasonIsAnEventMessage ==
    health.emitted =>
        /\ health.sev = MaxSeverity
        /\ health.reason \in
              CASE MaxSeverity = 2 ->
                     {last_logs.events[i].msg :
                         i \in Indices(last_logs.events, {"CRITICAL"})}
                [] MaxSeverity = 1 ->
                     {last_logs.events[i].msg :
                         i \in Indices(last_logs.events, {"WARNING", "ERROR"})}
                     \cup {AnomalyMessage(last_logs.msgs[i]) :
                              i \in 1..Len(last_logs.msgs)}
                [] OTHER -> {Nominal}

\* C11: the emitted level is the maximum severity over the events of the
\* record; the reason is the message of the last CRITICAL event at level
\* 2; at level 1 it is the message of the first WARNING or ERROR event
\* or, when only rolling anomalies were raised, the label "<key> anomaly"
\* of the first of them, which is not the message of the anomaly event;
\* at level 0 it is "Nominal".
C11_HealthIsMaxSeverity ==
    health.emitted =>
        /\ health.sev = MaxSeverity
        /\ health.reason =
              IF MaxSeverity = 2
              THEN last_logs.events[Last(Indices(last_logs.events, {"CRITICAL"}))].msg
              ELSE IF Indices(last_logs.events, {"WARNING", "ERROR"}) # {}
              THEN last_logs.events[First(Indices(last_logs.events,
                                                  {"WARNING", "ERROR"}))].msg
              ELSE IF last_logs.msgs # <<>>
              THEN AnomalyReason(last_logs.msgs[1].key)
              ELSE Nominal

\* a record with an ERROR event before a CRITICAL one and an INFO one after
C11_Witness ==
    /\ health.emitted
    /\ Len(last_logs.events) >= 3
    /\ last_logs.events[1].type = "ERROR"
    /\ last_logs.events[Len(last_logs.events)].type = "INFO"
    /\ Indices(last_logs.events, {"CRITICAL"}) # {}
    /\ health.sev = 2

\* ------------------------------------------------------------------------
\* Properties of the subscriptions
\* ------------------------------------------------------------------------
\* C19: the connections of a worker's rowReady, connected and
\* connection_lost signals change only while its thread is not running;
\* every connection of change_input_source is made before start().
C19_SubscriptionsOnlyWhileInactive ==
    /\ [](\A w \in Workers :
             workers[w].state = "running" => workers[w].conns = AllConnections)
    /\ [][\A w \in Workers :
             workers'[w].conns # workers[w].conns =>
                 /\ workers[w].state # "running"
                 /\ workers'[w].state # "running"]_vars

\* a new worker is being connected while the thread of the worker the
\* Dashboard dropped is still running
C19_Witness ==
    /\ dpc = "connect"
    /\ workers[preproc].conns # {}
    /\ \E w \in Workers :
          /\ w # preproc
          /\ workers[w].state = "running"
          /\ workers[w].conns = AllConnections

\* ------------------------------------------------------------------------
\* Properties of stop() and of the cleanup path
\* ------------------------------------------------------------------------
\* C15 as stated: in a session in which the device was opened, close() is
\* invoked on the handle exactly once by the time the session has ended
\* and no stop() is under way.
C15_CloseInvokedOnce ==
    \A s \in Threads :
        (tpc[s] = "done" /\ spc = "idle" /\ Count(signals[s], Connected) = 1)
            => close_calls[s] = 1

\* a stop() that finds the flag cleared and no open handle
QuietStop == ~run_flag /\ (ser = 0 \/ ~is_open[ser])

C17_PartialFrameDropped ==
    /\ [](\A s \in Threads :
             tpc[s] \in {"loop", "read", "handle"}
                 => buffer_lines[s] = session_lines[s])
    /\ [][\A s \in Threads :
             RowCount(signals'[s]) > RowCount(signals[s]) =>
                 /\ tpc[s] = "handle" /\ tpc'[s] = "loop"
                 /\ HasSentinel(last_line)
                 /\ signals'[s][Len(signals'[s])]
                        = RowReady(parse_frame(session_lines[s]))]_vars

\* a session that ended through its cleanup path with a line in its
\* buffer and no record emitted
C17_Witness ==
    \E s \in Threads :
        /\ tpc[s] = "done"
        /\ buffer_lines[s] # <<>>
        /\ RowCount(signals[s]) = 0
        /\ signals[s][Len(signals[s])] = Lost("PORT CLOSED")

\* ------------------------------------------------------------------------
\* Properties of the delivery order
\* ------------------------------------------------------------------------
NonDecreasing(seq) ==
    \A a, b \in 1..Len(seq) : a < b => seq[a] <= seq[b]
Ids(seq) == {seq[i] : i \in 1..Len(seq)}

\* C13: every subscriber is called with the records in the order in which
\* the loop read their sentinels, no call of a later record before a call
\* of an earlier one; each call carries one record, so a step hands a
\* subscriber at most one record; and once the posted calls have run, each
\* subscriber connected to rowReady has received every emitted record.
C13_RecordsInSentinelOrder ==
    /\ [](\A x \in Subscribers :
             /\ NonDecreasing(received[x])
             /\ Ids(received[x]) \subseteq emitted_ids)
    /\ [](call_queue = <<>> =>
             \A i \in 1..Len(RowReadySlots) :
                 Ids(received[RowReadySlots[i]]) = emitted_ids)
    /\ [][\A x \in Subscribers :
             \/ received'[x] = received[x]
             \/ \E id \in emitted_ids : received'[x] = Append(received[x], id)]_vars

\* every posted call has run, at least two records reached every
\* subscriber, a frame without a record lay among them, and the panel was
\* called a second time for a record through data_updated
C13_Witness ==
    /\ call_queue = <<>>
    /\ Cardinality(emitted_ids) >= 2
    /\ frames > Cardinality(emitted_ids)
    /\ \A x \in Subscribers : Cardinality(Ids(received[x])) >= 2
    /\ Len(received["panel"]) > Len(received["csv"])

\* ------------------------------------------------------------------------
\* Properties of the grouped fields
\* ------------------------------------------------------------------------
\* the token key=<number> occurs in the line, and the number of its first
\* occurrence
Present(line, key) ==
    \E i \in 1..Len(line) : line[i].k = key /\ line[i].num # <<>>
ValueOf(line, key) ==
    line[First({i \in 1..Len(line) : line[i].k = key /\ line[i].num # <<>>})].num[1]
NumericTokens(line) == {i \in 1..Len(line) : line[i].num # <<>>}

\* the field k is in both rows with one value, or in neither
Kept(before, after, k) ==
    /\ (k \in DOMAIN after) = (k \in DOMAIN before)
    /\ k \in DOMAIN before => after[k] = before[k]

\* the three fields are set to the numbers of their tokens when the three
\* tokens are present, and all left as they were otherwise
AllOrNone(line, before, after, keys, toks) ==
    IF \A j \in 1..3 : Present(line, toks[j])
    THEN \A j \in 1..3 :
            keys[j] \in DOMAIN after /\ after[keys[j]] = Num(ValueOf(line, toks[j]))
    ELSE \A j \in 1..3 : Kept(before, after, keys[j])

\* C21: what each line of the frame does to the record built from the
\* lines before it: a BME line sets bme_temp, bme_h and bme_p when T=, H=
\* and P= are all present and none of them otherwise; a GPS line does so
\* for gps_lat, gps_lon, gps_alt with Lat=, Lon=, Alt=, and sets gps_vel
\* exactly when Vel= is present, whatever the other three; a Gyro line
\* with fewer than three numbers sets no gyro field.
C21_GroupedFieldsAllOrNone ==
    \A i \in 1..Len(p_frame) :
        LET line == p_frame[i]
            before == parse_frame(SubSeq(p_frame, 1, i - 1))
            after == parse_frame(SubSeq(p_frame, 1, i))
        IN /\ StartsWith(line, "BME:") =>
                AllOrNone(line, before, after, <<"bme_temp", "bme_h", "bme_p">>,
                          <<"T=", "H=", "P=">>)
           /\ StartsWith(line, "GPS:") =>
                /\ AllOrNone(line, before, after,
                             <<"gps_lat", "gps_lon", "gps_alt">>,
                             <<"Lat=", "Lon=", "Alt=">>)
                /\ IF Present(line, "Vel=")
                   THEN /\ "gps_vel" \in DOMAIN after
                        /\ after["gps_vel"] = Num(ValueOf(line, "Vel="))
                   ELSE Kept(before, after, "gps_vel")
           /\ (StartsWith(line, "Gyro:") /\ Cardinality(NumericTokens(line)) < 3) =>
                \A k \in {"gyro_x", "gyro_y", "gyro_z"} : Kept(before, after, k)
           /\ i = Len(p_frame) => after = p_row

\* a complete GPS line followed by a GPS line that carries Vel= alone: the
\* position of the first stays and the velocity is that of the second
C21_Witness ==
    /\ Len(p_frame) = 2
    /\ StartsWith(p_frame[1], "GPS:") /\ StartsWith(p_frame[2], "GPS:")
    /\ Present(p_frame[1], "Lat=") /\ Present(p_frame[1], "Alt=")
    /\ ~Present(p_frame[2], "Lat=") /\ Present(p_frame[2], "Vel=")
    /\ p_row["gps_lat"] = Num(ValueOf(p_frame[1], "Lat="))
    /\ p_row["gps_vel"] = Num(ValueOf(p_frame[2], "Vel="))

\* ------------------------------------------------------------------------
\* Properties of the frames without a field
\* ------------------------------------------------------------------------
\* no line of the buffer yields a field
Fieldless(buf) ==
    buf # <<>> /\ \A i \in 1..Len(buf) : DOMAIN Alone(buf[i]) = {}

\* C22: when the loop reads a sentinel while the buffer holds only lines
\* that yield no field (unknown prefix, blank, a missing sub-field), it
\* emits nothing and empties the buffer; and whenever the buffer is empty
\* after a sentinel, the record of the next frame is parsed from the lines
\* of that frame alone.
C22_EmptyRecordNotEmitted ==
    /\ [][\A s \in Threads :
             (tpc[s] = "handle" /\ tpc'[s] = "loop"
              /\ HasSentinel(last_line) /\ Fieldless(buffer_lines[s]))
             => /\ signals'[s] = signals[s]
                /\ buffer_lines'[s] = <<>>
                /\ session_lines'[s] = <<>>]_vars
    /\ [](\A s \in Threads : \A i \in 1..Len(signals[s]) :
             signals[s][i].sig = "rowReady" => signals[s][i].row # EmptyRow)

\* a session read a line that yields no field and then the sentinel: the
\* frame was parsed, nothing was emitted and the buffer is empty
C22_Witness ==
    /\ nread = 2 /\ parse_calls = 1
    /\ HasSentinel(last_line)
    /\ \E s \in Threads :
          /\ tpc[s] = "loop"
          /\ buffer_lines[s] = <<>>
          /\ signals[s] = <<Connected>>

\* ------------------------------------------------------------------------
\* Properties of read errors and timeouts
\* ------------------------------------------------------------------------
ReadErrAt(seq) == {i \in 1..Len(seq) : seq[i] = Lost("READ ERR")}

\* C23: a read that raises makes the session emit connection_lost with
\* READ ERR once and leave the loop for its cleanup path, so the session
\* reads no more and emits no record after it; a read that times out
\* emits nothing and leaves the buffer, the read count and the monitor as
\* they were.
C23_ReadErrorEndsSession ==
    /\ [](\A s \in Threads :
             /\ Cardinality(ReadErrAt(signals[s])) <= 1
             /\ ReadErrAt(signals[s]) # {} =>
                   /\ tpc[s] \in {"fin_check", "fin_close", "fin_emit", "done"}
                   /\ \A i \in 1..Len(signals[s]) :
                         signals[s][i].sig = "rowReady"
                             => \A j \in ReadErrAt(signals[s]) : i < j)
    /\ [][\A s \in Threads :
             (tpc[s] = "read" /\ tpc'[s] = "fin_check"
              /\ nread' = nread /\ signals'[s] # signals[s])
             => signals'[s] = Append(signals[s], Lost("READ ERR"))]_vars
    /\ [][\A s \in Threads :
             (tpc[s] = "read" /\ tpc'[s] = "loop" /\ nread' = nread)
             => UNCHANGED <<signals, buffer_lines, parse_calls, mvars>>]_vars

\* a session that emitted a record, then met a read error and ended
C23_Witness ==
    \E s \in Threads :
        /\ tpc[s] = "done"
        /\ Len(signals[s]) = 4
        /\ signals[s][2].sig = "rowReady"
        /\ signals[s][3] = Lost("READ ERR")
        /\ signals[s][4] = Lost("PORT CLOSED")

\* ------------------------------------------------------------------------
\* Properties of the order of a session's signals
\* ------------------------------------------------------------------------
\* C24: a session whose open succeeded has emitted connected once, as its
\* first signal, hence before any record; and in every session nothing
\* but connection_lost follows a connection_lost, so no record and no
\* connected is emitted after the first READ ERR, THREAD ERR or PORT CLOSED.
C24_ConnectedFirstLostLast ==
    \A s \in Threads :
        /\ tpc[s] \notin {"idle", "open", "done"} =>
              signals[s] # <<>> /\ signals[s][1] = Connected
        /\ \A i \in 1..Len(signals[s]) :
              /\ signals[s][i] = Connected => i = 1
              /\ signals[s][i].sig = "rowReady" => signals[s][1] = Connected
              /\ signals[s][i].sig = "connection_lost" =>
                    \A j \in i..Len(signals[s]) :
                        signals[s][j].sig = "connection_lost"

\* a session that opened, buffered a line, met an exception while it
\* handled the sentinel and ended
C24_Witness ==
    \E s \in Threads :
        /\ tpc[s] = "done"
        /\ signals[s] = <<Connected, Lost("THREAD ERR"), Lost("PORT CLOSED")>>
        /\ buffer_lines[s] # <<>>

\* ------------------------------------------------------------------------
\* Properties of the number of deliveries
\* ------------------------------------------------------------------------
\* C25 as stated: when no subscriber raises, one record emitted by the
\* worker, or one row loaded by displaycsv, makes one call of
\* TelemetryPanel.update_telemetry and one call of
\* LogTab.process_telemetry, in live mode as in file mode.
C25_EachRecordProcessedOnce ==
    (last_path # "none" /\ last_bad = {}) =>
        invoked["panel"] = 1 /\ invoked["log"] = 1

\* ------------------------------------------------------------------------
\* Properties of the switch between two serial sources
\* ------------------------------------------------------------------------
\* C26 as stated: once change_input_source has started the worker of the
\* new source and shown its state, the connection state on display was
\* shown for that worker and no record of another worker has reached the
\* consumers.
C26_NoLateSignalOfOldWorker ==
    (preproc # 0 /\ dpc = "idle") =>
        /\ conn_state.by = preproc
        /\ last_row_by \in {0, preproc}

\* ------------------------------------------------------------------------
\* Properties of start() after stop()
\* ------------------------------------------------------------------------
\* C27 as stated: when start() returns, be it after starting a thread or
\* at its is_alive guard, the worker has a live read-loop thread and the
\* run flag is true.
C27_StartLeavesLiveSession ==
    [][((\E s \in Threads : tpc[s] # "open" /\ tpc'[s] = "open")
        \/ (~start_noop /\ start_noop'))
       => /\ run_flag'
          /\ thread' # 0
          /\ tpc'[thread'] \notin {"idle", "done"}]_vars

\* ------------------------------------------------------------------------
\* Properties of the records emitted after stop()
\* ------------------------------------------------------------------------
\* C28: once a stop() has returned during a session, the session emits at
\* most one more record: its loop test, when next reached, leaves the
\* loop, so only the turn that was in progress can still complete a frame.
C28_AtMostOneRecordAfterStop ==
    /\ [](\A s \in Threads :
             stop_mark[s] >= 0 => Rows(signals[s]) <= stop_mark[s] + 1)
    /\ [][\A s \in Threads :
             (stop_mark[s] >= 0 /\ tpc[s] = "loop" /\ tpc'[s] # "loop")
                 => tpc'[s] = "fin_check"]_vars

\* stop() returned when no record had been emitted and the thread held a
\* sentinel line it had read but not yet handled; the line was then
\* handled and the record was emitted
C28_Witness ==
    \E s \in Threads :
        /\ stop_mark[s] = 0
        /\ Rows(signals[s]) = 1
        /\ tpc[s] \in {"loop", "fin_check"}

\* ------------------------------------------------------------------------
\* The static range check on a reading of zero
\* ------------------------------------------------------------------------
\* the events check_telemetry_thresholds returns for the string "0" under
\* the key
EventsOfZeroString(key) ==
    check_telemetry_thresholds(Put(EmptyRow, key, NumStr(0)))

\* C29: a channel whose key is present with a numeric value is evaluated
\* by the static range check also when the value is 0: a numeric VOLT or
\* PRES of 0 raises the CRITICAL event of its family, the same event as
\* the string "0" raises.
C29_NumericZeroEvaluated ==
    \A key \in DOMAIN thr_rec \cap {"VOLT", "PRES"} :
        thr_rec[key] = Num(0)
            => /\ Len(thr_events) = 1
               /\ thr_events[1].type = "CRITICAL"
               /\ thr_events = EventsOfZeroString(key)

\* ------------------------------------------------------------------------
\* Properties of the paused monitor and of the isolation of the windows
\* ------------------------------------------------------------------------
\* C30: while the log tab is paused a call of process_telemetry changes no
\* window, logs nothing and emits no health_changed; a call changes the
\* window of a channel only when the tab is not paused and the record
\* carries a reading for that tracked channel, so a reading for one
\* channel, a None reading or a reading under an untracked key never
\* changes another channel's window; no window ever holds more than
\* window_size samples.
C30_PausedIgnoresAndWindowsIsolated ==
    /\ [](\A k \in DOMAIN buffers : Len(buffers[k]) <= window_size)
    /\ [][/\ paused => /\ buffers' = buffers
                       /\ health' = health \/ ~health'.emitted
                       /\ last_logs' = last_logs \/ last_logs' = NoLogs
          /\ \A k \in DOMAIN buffers :
                buffers'[k] # buffers[k]
                   => /\ ~paused
                      /\ k \in DOMAIN last_rec'
                      /\ safe_float(last_rec'[k]) # <<>>]_vars

\* the latest call came while the tab was paused and carried a reading for
\* a channel whose window is full, another window holds a sample, and the
\* call changed nothing and emitted nothing
C30_Witness ==
    \E k \in DOMAIN buffers :
        /\ paused
        /\ last_rec = Put(EmptyRow, k, Num(BaseSample))
        /\ ~health.emitted
        /\ last_logs = NoLogs
        /\ Len(buffers[k]) = window_size
        /\ buffers[k][window_size] = BaseSample
        /\ buffers = prev_buffers
        /\ \E k2 \in DOMAIN buffers : k2 # k /\ buffers[k2] # <<>>
====
